---- MODULE Spec2Model ----
(***************************************************************************)
(* Incremental blame of ripsrc: incblame.Apply (single-parent and merge    *)
(* patch application, ripsrc/history3/incblame/apply.go) and the Rip       *)
(* driver that streams blame results commit by commit (ripsrc/rip.go).     *)
(*                                                                         *)
(* Go values are modelled as follows.  A []byte is a sequence of           *)
(* one-character strings.  A Go slice index i (0-based) addresses element  *)
(* i+1 of the TLA+ sequence.  A Go panic is an outcome with panic = TRUE.  *)
(***************************************************************************)
EXTENDS Integers, Sequences, FiniteSets, TLC

\* ------------------------------------------------------------------------
\* Bounds of the model
\* ------------------------------------------------------------------------
\* longest parent blame, in lines
MaxLines == 2
\* most hunks in a diff
MaxHunks == 2
\* most body lines in a diff (over all its hunks)
MaxBody == 3
\* most commits on the commit stream
MaxCommits == 2
\* most files in a commit
MaxFiles == 2
\* largest capacity of the caller's results channel
MaxResultsCap == 2
\* most commits in the history the store's driver processes
MaxHistory == 3
\* most bytes in front of the file name in a path handed to the ignore pattern
MaxPrefix == 3

\* ------------------------------------------------------------------------
\* Program constants
\* ------------------------------------------------------------------------
\* errors := make(chan error, 100)
ErrorsCap == 100
\* commits := make(chan Commit, 50000)
CommitsCap == 50000

\* ------------------------------------------------------------------------
\* State
\* ------------------------------------------------------------------------
VARIABLES
    parents,   \* []Blame handed to Apply
    diff,      \* diff.Hunks as the caller holds it (sort.Slice reorders it in place)
    given,     \* diff.Hunks as it was before the call
    isBinary,  \* the diff is the diff of a binary file (it has no hunks then)
    out,       \* what the call of Apply produced: a Blame or a panic
    apc,       \* "ready" before the call, "done" after it
    \* --- Rip ---
    stream,      \* the commits streamCommits will produce, in order: the files of each
    resultsCap,  \* capacity of the results channel the caller passed in
    sent,        \* number of commits streamCommits has put on the commits channel
    commitsCh,   \* the commits channel: indices into stream, oldest first
    closed,      \* close(commits) has run
    mpc,         \* Rip itself: "stream", "wait" (wg.Wait), "returned"
    ret,         \* what Rip returned: <<>> for nil, <<err>> for an error
    gpc,         \* the processing goroutine: "recv", "wait" (localwg.Wait),
                 \* "forward" (range res), "done" (returned), "idle" (not started)
    cur,         \* index in stream of the commit the goroutine is processing
    jobs,        \* file jobs handed to the pool whose callback has not run: <<commit, file>>
    backlog,     \* backlog: for each SHA that has a key, the results cached
    \* the variables one pass of the loop declares and its callback captures,
    \* for each commit of the stream:
    filecount,   \* filecount
    resCh,       \* the buffer of the channel res
    resClosed,   \* close(res) has run
    localerrors, \* the buffer of the channel localerrors
    wgDone,      \* number of calls of localwg.Done()
    results,     \* the buffer of the results channel
    waiting,     \* the consumer is blocked receiving from results
    sink,        \* what the consumer has received, in order
    errorsCh,    \* the errors channel
    crashed,     \* the process has panicked
    calls,       \* the callbacks that have run, in order: [sha, file, failed]
    submitted,   \* the commits handed to pool.Submit, in order
    \* --- the blame store and its driver ---
    parentsOf,   \* the commit graph: for each commit, in topological order, its parents
    touched,     \* for each commit, the paths its diff touches
    held,        \* the store: live_child_count of each entry <<commit, path>>
    processed,   \* number of commits the driver has processed
    spc,         \* the driver: "next" between commits, "post" in the serial phase
                 \* after the applies of a commit, "idle" when there is no driver
    todoPut,     \* paths of the commit being processed whose blame is not yet put
    todoRelease, \* parent entries the commit being processed has consumed and
                 \* not yet released
    \* --- the ignore pattern ---
    path,        \* the path handed to ignorePatterns.MatchString, byte by byte
    ignored      \* <<>> before the call, then <<result of MatchString>>

applyVars == <<parents, diff, given, isBinary, out, apc>>
ripVars == <<stream, resultsCap, sent, commitsCh, closed, mpc, ret, gpc, cur, jobs,
             backlog, filecount, resCh, resClosed, localerrors, wgDone, results, waiting,
             sink, errorsCh, crashed, calls, submitted>>
storeVars == <<parentsOf, touched, held, processed, spc, todoPut, todoRelease>>
ignoreVars == <<path, ignored>>
vars == <<parents, diff, given, isBinary, out, apc, stream, resultsCap, sent, commitsCh, closed,
          mpc, ret, gpc, cur, jobs, backlog, filecount, resCh, resClosed, localerrors,
          wgDone, results, waiting, sink, errorsCh, crashed, calls, submitted,
          parentsOf, touched, held, processed, spc, todoPut, todoRelease, path, ignored>>

\* ------------------------------------------------------------------------
\* incblame: Blame, Line
\* ------------------------------------------------------------------------
\* the commit being applied
NewCommit == "N"

\* Line{Line: data, Commit: commit}
MkLine(data, commit) == [Line |-> data, Commit |-> commit]

\* Blame{Lines: lines, Commit: commit}
MkBlame(lines, commit) == [Commit |-> commit, Lines |-> lines]

\* Blame{} : the zero value used when there is no parent
ZeroBlame == MkBlame(<<>>, "")

\* Line.Eq
LineEq(l, l2) == l.Commit = l2.Commit /\ l.Line = l2.Line

\* Blame.Eq
BlameEq(f, f2) ==
    /\ f.Commit = f2.Commit
    /\ Len(f.Lines) = Len(f2.Lines)
    /\ \A i \in 1..Len(f.Lines) : LineEq(f.Lines[i], f2.Lines[i])

\* the text of git's end-of-file marker, byte by byte
NoNewline ==
    <<"\\", " ", "N", "o", " ", "n", "e", "w", "l", "i", "n", "e", " ", "a", "t",
      " ", "e", "n", "d", " ", "o", "f", " ", "f", "i", "l", "e">>

\* ------------------------------------------------------------------------
\* The working buffer res of an apply, with the cursor i and (merge only)
\* the cursors offsets into the merge parents.  panic = TRUE once the Go
\* code has panicked; nothing is done after that.
\* ------------------------------------------------------------------------
Work(res, i, offsets) == [panic |-> FALSE, res |-> res, i |-> i, offsets |-> offsets]

Panicked(st) == [st EXCEPT !.panic = TRUE]

\* the mutant of remLine: the last line of res is removed instead of line i
remLineLast(st) ==
    LET i == st.i
        res == st.res
    IN  IF i > Len(res) THEN Panicked(st)
        ELSE IF i < 0 \/ i + 1 > Len(res) THEN Panicked(st)
        ELSE [st EXCEPT !.res = SubSeq(res, 1, Len(res) - 1)]

\* remLine: the explicit check i > len(res), then res[:i] and res[i+1:], which
\* panic (slice bounds out of range) when i < 0 or i+1 > len(res)
remLine(st) ==
    LET i == st.i
        res == st.res
    IN  IF i > Len(res) THEN Panicked(st)
        ELSE IF i < 0 \/ i + 1 > Len(res) THEN Panicked(st)
        ELSE [st EXCEPT !.res = SubSeq(res, 1, i) \o SubSeq(res, i + 2, Len(res))]

\* the mutant of addLine: the new line takes the place of line i instead of
\* being put in front of it
addLineReplaces(st, data, commit) ==
    LET i == st.i
        res == st.res
    IN  IF i < 0 \/ i > Len(res) THEN Panicked(st)
        ELSE [st EXCEPT !.res = SubSeq(res, 1, i) \o <<MkLine(data, commit)>>
                                  \o SubSeq(res, i + 2, Len(res))]

\* addLine: temp = res[:i] + Line{data, commit} + res[i:].  res[:i] needs
\* 0 <= i <= cap(res) and, as i # len(res) then, res[i:] needs i <= len(res):
\* an i past len(res) panics at one slice expression or the other.
addLine(st, data, commit) ==
    LET i == st.i
        res == st.res
    IN  IF i < 0 \/ i > Len(res) THEN Panicked(st)
        ELSE [st EXCEPT !.res = SubSeq(res, 1, i) \o <<MkLine(data, commit)>>
                                  \o (IF i # Len(res) THEN SubSeq(res, i + 1, Len(res))
                                      ELSE <<>>)]

\* i := h.Locations[0].Offset - 1; if i == -1 { i = 0 }
StartIndex(h) == IF h.Locations[1] - 1 = -1 THEN 0 ELSE h.Locations[1] - 1

\* ------------------------------------------------------------------------
\* sort.Slice(diff.Hunks, a.Locations[0].Offset > b.Locations[0].Offset)
\* sort.Slice is not stable: every arrangement in descending offset order is
\* a possible result.  The comparison reads Locations[0] of both hunks.
\* ------------------------------------------------------------------------
Perms(s) ==
    {p \in [1..Len(s) -> 1..Len(s)] : \A i, j \in 1..Len(s) : i # j => p[i] # p[j]}

\* the mutant of SortedDescending: the hunks are left in the order given
Unsorted(hunks) == {hunks}

SortedDescending(hunks) ==
    {[k \in 1..Len(hunks) |-> hunks[p[k]]] : p \in
        {q \in Perms(hunks) :
            \A k \in 1..(Len(hunks) - 1) :
                hunks[q[k]].Locations[1] >= hunks[q[k + 1]].Locations[1]}}

\* the comparison panics on a hunk without locations (index out of range)
SortPanics(hunks) ==
    Len(hunks) >= 2 /\ \E k \in 1..Len(hunks) : Len(hunks[k].Locations) = 0

\* the mutant of oneParentLine: an inserted line does not move the cursor
oneParentLineNoAdvance(st, b, commit) ==
    IF st.panic THEN st
    ELSE IF Len(b) = 0 THEN Panicked(st)
    ELSE CASE b[1] \in {" ", "\t"} -> [st EXCEPT !.i = @ + 1]
           [] b[1] = "-" -> remLine(st)
           [] b[1] = "+" -> addLine(st, Tail(b), commit)
           [] b[1] = "\\" -> IF b = NoNewline THEN st ELSE Panicked(st)
           [] OTHER -> Panicked(st)

\* ------------------------------------------------------------------------
\* applyOneParent
\* ------------------------------------------------------------------------
\* one scanned line b of a hunk body
oneParentLine(st, b, commit) ==
    IF st.panic THEN st
    ELSE IF Len(b) = 0 THEN Panicked(st)
    ELSE LET op == b[1]
             data == Tail(b)
         IN  CASE op \in {" ", "\t"} -> [st EXCEPT !.i = @ + 1]
               [] op = "-" -> remLine(st)
               [] op = "+" -> LET a == addLine(st, data, commit)
                              IN  IF a.panic THEN a ELSE [a EXCEPT !.i = @ + 1]
               [] op = "\\" -> IF b = NoNewline THEN st ELSE Panicked(st)
               [] OTHER -> Panicked(st)

RECURSIVE oneParentBody(_, _, _, _)
oneParentBody(st, data, k, commit) ==
    IF k > Len(data) THEN st
    ELSE oneParentBody(oneParentLine(st, data[k], commit), data, k + 1, commit)

\* one hunk: the check of h.Locations, the start index, then the body
oneParentHunk(st, h, commit) ==
    IF st.panic THEN st
    ELSE IF Len(h.Locations) = 0 THEN Panicked(st)
    ELSE oneParentBody([st EXCEPT !.i = StartIndex(h)], h.Data, 1, commit)

RECURSIVE oneParentHunks(_, _, _, _)
oneParentHunks(st, hunks, k, commit) ==
    IF k > Len(hunks) THEN st
    ELSE oneParentHunks(oneParentHunk(st, hunks[k], commit), hunks, k + 1, commit)

\* what a finished apply returns
Outcome(st, commit) ==
    IF st.panic THEN [panic |-> TRUE, blame |-> ZeroBlame]
    ELSE [panic |-> FALSE, blame |-> MkBlame(st.res, commit)]

\* applyOneParent on the hunks as sort.Slice left them
applyOneParent(file, sorted, commit) ==
    Outcome(oneParentHunks(Work(file.Lines, 0, <<>>), sorted, 1, commit), commit)

\* ------------------------------------------------------------------------
\* applyMerge
\* ------------------------------------------------------------------------
\* offsets[k] = h.Locations[k].Offset - 2, for every parent k
StartOffsets(h, lenp) == [k \in 1..lenp |-> h.Locations[k] - 2]

\* the loop over ops[1:]: the cursor of merge parent k (Go index k-1 >= 1)
\* moves forward on ' ' and '\t' unless some column of the line is '-',
\* moves back on '-', stays on '+'; any other byte panics
advanceOffsets(st, ops) ==
    IF \E k \in 2..Len(ops) : ops[k] \notin {" ", "\t", "-", "+"} THEN Panicked(st)
    ELSE LET removedFromAnother == \E j \in 1..Len(ops) : ops[j] = "-"
         IN  [st EXCEPT !.offsets =
                 [k \in 1..Len(ops) |->
                     IF k = 1 THEN @[k]
                     ELSE IF ops[k] \in {" ", "\t"}
                          THEN (IF removedFromAnother THEN @[k] ELSE @[k] + 1)
                     ELSE IF ops[k] = "-" THEN @[k] - 1
                     ELSE @[k]]]

\* srcI: the last column whose op is ' ' (0 when there is none), as a Go index
srcIndex(ops) ==
    LET blanks == {k \in 1..Len(ops) : ops[k] = " "}
    IN  IF blanks = {} THEN 0
        ELSE (CHOOSE k \in blanks : \A j \in blanks : j <= k) - 1

\* the mutant of mergeAdd: an inserted line does not move the cursor
mergeAddNoAdvance(st, ops, data, prnts, commit) ==
    LET srcI == srcIndex(ops)
    IN  IF srcI = 0 THEN addLine(st, data, commit)
        ELSE LET offset == st.offsets[srcI + 1]
                 lines == prnts[srcI + 1].Lines
             IN  IF offset < 0 \/ offset >= Len(lines) THEN Panicked(st)
                 ELSE addLine(st, data, lines[offset + 1].Commit)

\* the mutant of mergeAdd: the line is attributed to the commit of the
\* parent's blame, not to the commit of the parent's line
mergeAddBlameCommit(st, ops, data, prnts, commit) ==
    LET srcI == srcIndex(ops)
        a == addLine(st, data, IF srcI = 0 THEN commit ELSE prnts[srcI + 1].Commit)
    IN  IF srcI # 0 /\ (st.offsets[srcI + 1] < 0
                        \/ st.offsets[srcI + 1] >= Len(prnts[srcI + 1].Lines))
        THEN Panicked(st)
        ELSE IF a.panic THEN a ELSE [a EXCEPT !.i = @ + 1]

\* case '+' of the mainline switch: find the owner of the line, insert it
mergeAdd(st, ops, data, prnts, commit) ==
    LET srcI == srcIndex(ops)
    IN  IF srcI = 0
        THEN LET a == addLine(st, data, commit)
             IN  IF a.panic THEN a ELSE [a EXCEPT !.i = @ + 1]
        ELSE LET offset == st.offsets[srcI + 1]
                 lines == prnts[srcI + 1].Lines
             IN  IF offset < 0 \/ offset >= Len(lines) THEN Panicked(st)
                 ELSE LET a == addLine(st, data, lines[offset + 1].Commit)
                      IN  IF a.panic THEN a ELSE [a EXCEPT !.i = @ + 1]

\* one scanned line b of a hunk body
mergeLine(st, b, prnts, commit) ==
    IF st.panic THEN st
    ELSE IF Len(b) = 0 THEN Panicked(st)
    ELSE IF Len(b) < Len(prnts) THEN Panicked(st)
    ELSE LET lenp == Len(prnts)
             ops == SubSeq(b, 1, lenp)
             data == SubSeq(b, lenp + 1, Len(b))
             adv == advanceOffsets(st, ops)
         IN  IF adv.panic THEN adv
             ELSE CASE ops[1] \in {" ", "\t"} -> [adv EXCEPT !.i = @ + 1]
                    [] ops[1] = "-" -> remLine(adv)
                    [] ops[1] = "+" -> mergeAdd(adv, ops, data, prnts, commit)
                    [] OTHER -> Panicked(adv)

RECURSIVE mergeBody(_, _, _, _, _)
mergeBody(st, data, k, prnts, commit) ==
    IF k > Len(data) THEN st
    ELSE mergeBody(mergeLine(st, data[k], prnts, commit), data, k + 1, prnts, commit)

\* one hunk: h.Locations[k] is read for every parent k (index out of range
\* when the hunk has fewer locations), then the body is scanned
mergeHunk(st, h, prnts, commit) ==
    IF st.panic THEN st
    ELSE IF Len(h.Locations) < Len(prnts) THEN Panicked(st)
    ELSE mergeBody([st EXCEPT !.i = StartIndex(h),
                              !.offsets = StartOffsets(h, Len(prnts))],
                   h.Data, 1, prnts, commit)

RECURSIVE mergeHunks(_, _, _, _, _)
mergeHunks(st, hunks, k, prnts, commit) ==
    IF k > Len(hunks) THEN st
    ELSE mergeHunks(mergeHunk(st, hunks[k], prnts, commit), hunks, k + 1, prnts, commit)

\* applyMerge on the hunks as sort.Slice left them
applyMerge(prnts, sorted, commit) ==
    Outcome(mergeHunks(Work(prnts[1].Lines, 0, <<>>), sorted, 1, prnts, commit), commit)

\* ------------------------------------------------------------------------
\* Apply
\* ------------------------------------------------------------------------
ApplySorted(prnts, sorted, commit) ==
    IF Len(prnts) = 0 THEN applyOneParent(ZeroBlame, sorted, commit)
    ELSE IF Len(prnts) = 1 THEN applyOneParent(prnts[1], sorted, commit)
    ELSE applyMerge(prnts, sorted, commit)

\* every outcome the call can have, one per arrangement sort.Slice may leave
ApplyOutcomes(prnts, hunks, commit) ==
    IF SortPanics(hunks) THEN {[panic |-> TRUE, blame |-> ZeroBlame]}
    ELSE {ApplySorted(prnts, s, commit) : s \in SortedDescending(hunks)}

\* ------------------------------------------------------------------------
\* Inputs of Apply
\* ------------------------------------------------------------------------
\* Apply never compares the content or the commit of a parent line, so the
\* parent blames are taken with pairwise distinct lines: line j of parent k
\* has content Contents[j] and commit LineCommits[k][j].
Contents == <<"x", "y", "z", "w", "v", "u">>

LineCommits ==
    << <<"A", "B", "C", "D", "E1", "E2">>,
       <<"F", "G", "H", "I", "J1", "J2">> >>

ParentCommits == <<"P0", "P1">>

ParentBlame(k, n) ==
    MkBlame([j \in 1..n |-> MkLine(<<Contents[j]>>, LineCommits[k][j])], ParentCommits[k])

\* offsets a hunk header can carry: 0 (empty side), 1..len, and past the end
Offsets == 0..(MaxLines + 1)

\* A diff is drawn as: the number of hunks, the length of each body (lens),
\* the locations of each hunk (locs) and the body lines of all hunks in one
\* row (flat), each body line given by its prefix.  The data of a body line
\* is a letter of its own, so that every inserted line can be told apart.
BodyData == <<"a", "b", "c", "d", "e", "f", "g", "h">>

RECURSIVE SumTo(_, _)
SumTo(lens, k) == IF k = 0 THEN 0 ELSE lens[k] + SumTo(lens, k - 1)

\* the body lengths of h hunks that have at most budget lines together
Shapes(h, budget) == {lens \in [1..h -> 0..budget] : SumTo(lens, h) <= budget}

\* lines taken as they are (verbatim): the end-of-file marker and an empty
\* line and, in a combined diff, a line shorter than the number of parents
OneVerbatim == {NoNewline, <<>>}

MergeVerbatim == {NoNewline, <<>>, <<"+">>}

\* the number of lines before index j of flat that carry data
RECURSIVE DataBefore(_, _, _)
DataBefore(flat, j, verbatim) ==
    IF j <= 1 THEN 0
    ELSE DataBefore(flat, j - 1, verbatim) + (IF flat[j - 1] \in verbatim THEN 0 ELSE 1)

BodyLine(flat, j, verbatim) ==
    IF flat[j] \in verbatim THEN flat[j]
    ELSE flat[j] \o <<BodyData[DataBefore(flat, j, verbatim) + 1]>>

MkDiff(lens, locs, flat, verbatim) ==
    [k \in 1..Len(lens) |->
        [Locations |-> locs[k],
         Data |-> [j \in 1..lens[k] |->
                      BodyLine(flat, SumTo(lens, k - 1) + j, verbatim)]]]

\* given is a diff of h hunks with nloc locations each, of at most budget
\* body lines whose prefixes come from alphabet
DrawDiff(alphabet, nloc, h, budget) ==
    LET verbatim == IF nloc = 1 THEN OneVerbatim ELSE MergeVerbatim IN
    \E lens \in Shapes(h, budget) :
        \E locs \in [1..h -> [1..nloc -> Offsets]] :
            \E flat \in [1..SumTo(lens, h) -> alphabet] :
                given = MkDiff(lens, locs, flat, verbatim)

\* prefixes of the body lines of a one-parent diff: context, deletion, addition
OneOps == {<<" ">>, <<"-">>, <<"+">>}

\* and the rarer ones: tab context, the end-of-file marker, another line that
\* starts with a backslash, an unknown prefix, an empty line
OddOneOps == {<<"\t">>, NoNewline, <<"\\">>, <<"?">>, <<>>}

\* prefixes of the body lines of a two-parent combined diff: one op per parent
MergeOps == {<<a, b>> : a \in {" ", "-", "+"}, b \in {" ", "-", "+"}}

\* and the rarer ones: tabs, unknown ops, the end-of-file marker, a line of
\* one byte, an empty line
OddMergeOps ==
    {<<"\t", " ">>, <<"+", "\t">>, <<"?", " ">>, <<" ", "?">>, NoNewline, <<"+">>, <<>>}

\* combined-diff lines whose merge-parent column is ' '
MainlineOnlyOps == {<<a, " ">> : a \in {" ", "-", "+"}}

\* the calls of Apply with no parent or one parent
InitOneParent ==
    /\ parents \in {<<>>} \cup {<<ParentBlame(1, n)>> : n \in 0..MaxLines}
    /\ \/ \E h \in 0..MaxHunks : DrawDiff(OneOps, 1, h, MaxBody)
       \/ DrawDiff(OneOps \cup OddOneOps, 1, 1, MaxBody)

\* the calls of Apply with two parents
InitMerge ==
    /\ parents \in {<<ParentBlame(1, n), ParentBlame(2, m)>> :
                        n \in 0..MaxLines, m \in {0, MaxLines}}
    /\ \/ DrawDiff(MergeOps, 2, 1, MaxBody)
       \/ DrawDiff(MergeOps \cup OddMergeOps, 2, 1, MaxBody - 1)
       \/ DrawDiff(MainlineOnlyOps, 2, MaxHunks, MaxBody - 1)

\* the scenarios of the specification (section 8) and two merges of the same
\* kind, with the file contents they name: (parents, hunks)
Ln(c, k) == MkLine(c, k)

Hk(locs, data) == [Locations |-> locs, Data |-> data]

Scenarios ==
    { \* 1 creation: A adds x, y
      << <<>>, <<Hk(<<0>>, << <<"+", "x">>, <<"+", "y">> >>)>> >>,
      \* 2 append: z after x, y
      << <<MkBlame(<<Ln(<<"x">>, "A"), Ln(<<"y">>, "A")>>, "A")>>,
         <<Hk(<<1>>, << <<" ", "x">>, <<" ", "y">>, <<"+", "z">> >>)>> >>,
      \* 3 middle deletion: y out of x, y, z
      << <<MkBlame(<<Ln(<<"x">>, "A"), Ln(<<"y">>, "A"), Ln(<<"z">>, "B")>>, "B")>>,
         <<Hk(<<1>>, << <<" ", "x">>, <<"-", "y">>, <<" ", "z">> >>)>> >>,
      \* 4 modification: x becomes X
      << <<MkBlame(<<Ln(<<"x">>, "A"), Ln(<<"z">>, "B")>>, "C")>>,
         <<Hk(<<1>>, << <<"-", "x">>, <<"+", "X">>, <<" ", "z">> >>)>> >>,
      \* 5 clean merge of a, x, y and x, y, b
      << <<MkBlame(<<Ln(<<"a">>, "E"), Ln(<<"x">>, "A"), Ln(<<"y">>, "A")>>, "E"),
           MkBlame(<<Ln(<<"x">>, "A"), Ln(<<"y">>, "A"), Ln(<<"b">>, "F")>>, "F")>>,
         <<Hk(<<1, 1>>, << <<" ", "+", "a">>, <<" ", " ", "x">>, <<" ", " ", "y">>,
                           <<"+", " ", "b">> >>)>> >>,
      \* 6 conflict resolution: x1 and x2 resolved to x3
      << <<MkBlame(<<Ln(<<"x", "1">>, "G"), Ln(<<"y">>, "A")>>, "G"),
           MkBlame(<<Ln(<<"x", "2">>, "H"), Ln(<<"y">>, "A")>>, "H")>>,
         <<Hk(<<1, 1>>, << <<"-", " ", "x", "1">>, <<" ", "-", "x", "2">>,
                           <<"+", "+", "x", "3">>, <<" ", " ", "y">> >>)>> >>,
      \* a merge of p, x, t and p, q, b, t into p, x, b, t: the merge parent's
      \* line q is dropped before its line b is taken
      << <<MkBlame(<<Ln(<<"p">>, "A"), Ln(<<"x">>, "E"), Ln(<<"t">>, "A")>>, "E"),
           MkBlame(<<Ln(<<"p">>, "A"), Ln(<<"q">>, "G"), Ln(<<"b">>, "F"),
                     Ln(<<"t">>, "A")>>, "F")>>,
         <<Hk(<<1, 1>>, << <<" ", " ", "p">>, <<" ", "-", "q">>, <<" ", "+", "x">>,
                           <<"+", " ", "b">>, <<" ", " ", "t">> >>)>> >>,
      \* a merge of x and q, b into x, b
      << <<MkBlame(<<Ln(<<"x">>, "A")>>, "E"),
           MkBlame(<<Ln(<<"q">>, "G"), Ln(<<"b">>, "F")>>, "F")>>,
         <<Hk(<<1, 1>>, << <<" ", "-", "q">>, <<" ", "+", "x">>, <<"+", " ", "b">> >>)>> >> }

InitScenario == \E sc \in Scenarios : parents = sc[1] /\ given = sc[2]

NoOutcome == [panic |-> FALSE, blame |-> ZeroBlame]

\* Rip is not running
RipIdle ==
    /\ stream = <<>>
    /\ resultsCap = 0
    /\ sent = 0
    /\ commitsCh = <<>>
    /\ closed = FALSE
    /\ mpc = "idle"
    /\ ret = <<>>
    /\ gpc = "idle"
    /\ cur = 0
    /\ jobs = {}
    /\ backlog = <<>>
    /\ filecount = <<>>
    /\ resCh = <<>>
    /\ resClosed = <<>>
    /\ localerrors = <<>>
    /\ wgDone = <<>>
    /\ results = <<>>
    /\ waiting = FALSE
    /\ sink = <<>>
    /\ errorsCh = <<>>
    /\ crashed = FALSE
    /\ calls = <<>>
    /\ submitted = <<>>

\* no call of the ignore pattern
IgnoreIdle == path = <<>> /\ ignored = <<>>

\* no blame store and no driver of it
StoreIdle ==
    /\ parentsOf = <<>>
    /\ touched = <<>>
    /\ held = <<>>
    /\ processed = 0
    /\ spc = "idle"
    /\ todoPut = {}
    /\ todoRelease = {}

InitApply ==
    /\ InitScenario \/ InitOneParent \/ InitMerge
    /\ diff = given
    /\ isBinary \in {b \in BOOLEAN : b => given = <<>>}
    /\ out = NoOutcome
    /\ apc = "ready"
    /\ RipIdle
    /\ StoreIdle
    /\ IgnoreIdle

\* the mutant of ParentsAfter: res is the parent's own array (no copy), so the
\* lines of the result are written over the lines of the first parent
ParentsShared(prnts, outcome) ==
    [k \in 1..Len(prnts) |->
        IF k # 1 THEN prnts[k]
        ELSE [prnts[k] EXCEPT !.Lines =
                 [n \in 1..Len(prnts[k].Lines) |->
                     IF n <= Len(outcome.blame.Lines) THEN outcome.blame.Lines[n]
                     ELSE prnts[k].Lines[n]]]]

\* the parents after the call: res is a new array holding a copy of the
\* parent's lines (make, copy), and remLine and addLine write to res only
ParentsAfter(prnts, outcome) == prnts

\* a call Apply(parents, diff, NewCommit): sort.Slice reorders the caller's
\* diff.Hunks, then the hunks are applied in that order
CallApply ==
    /\ apc = "ready"
    /\ IF SortPanics(diff)
       THEN /\ out' = [panic |-> TRUE, blame |-> ZeroBlame]
            /\ diff' = diff
       ELSE \E s \in SortedDescending(diff) :
                /\ diff' = s
                /\ out' = ApplySorted(parents, s, NewCommit)
    /\ apc' = "done"
    /\ parents' = ParentsAfter(parents, out')
    /\ UNCHANGED <<given, isBinary>>
    /\ UNCHANGED ripVars
    /\ UNCHANGED storeVars
    /\ UNCHANGED ignoreVars

NextApply == CallApply

SpecApply == InitApply /\ [][NextApply]_vars

\* ------------------------------------------------------------------------
\* Single-parent apply as the specification states it (section 4.D.2): the
\* hunks in ascending offset order, a cursor old into the parent's lines and
\* an output buffer.  err = TRUE is the specification's fatal error.
\* ------------------------------------------------------------------------
RefFail(st) == [st EXCEPT !.err = TRUE]

\* the hunks in ascending order of their first offset (given order on ties)
AscendingHunks(hunks) ==
    LET q == CHOOSE r \in Perms(hunks) :
                 \A k \in 1..(Len(hunks) - 1) :
                     \/ hunks[r[k]].Locations[1] < hunks[r[k + 1]].Locations[1]
                     \/ /\ hunks[r[k]].Locations[1] = hunks[r[k + 1]].Locations[1]
                        /\ r[k] < r[k + 1]
    IN  [k \in 1..Len(hunks) |-> hunks[q[k]]]

RefLine(st, b, parent, commit) ==
    IF st.err THEN st
    ELSE IF Len(b) = 0 THEN RefFail(st)
    ELSE CASE b[1] \in {" ", "\t"} ->
                 IF st.old >= Len(parent.Lines) THEN RefFail(st)
                 ELSE [st EXCEPT !.lines = Append(@, parent.Lines[st.old + 1]),
                                 !.old = @ + 1]
           [] b[1] = "-" ->
                 IF st.old >= Len(parent.Lines) THEN RefFail(st)
                 ELSE [st EXCEPT !.old = @ + 1]
           [] b[1] = "+" -> [st EXCEPT !.lines = Append(@, MkLine(Tail(b), commit))]
           [] b[1] = "\\" -> IF b = NoNewline THEN st ELSE RefFail(st)
           [] OTHER -> RefFail(st)

RECURSIVE RefBody(_, _, _, _, _)
RefBody(st, data, k, parent, commit) ==
    IF k > Len(data) THEN st
    ELSE RefBody(RefLine(st, data[k], parent, commit), data, k + 1, parent, commit)

\* step 1 of a hunk: copy parent.lines[old .. j], j = max(0, offset - 1)
RefHunk(st, h, parent, commit) ==
    IF st.err THEN st
    ELSE LET j == IF h.Locations[1] - 1 < 0 THEN 0 ELSE h.Locations[1] - 1
         IN  IF j < st.old \/ j > Len(parent.Lines) THEN RefFail(st)
             ELSE RefBody([st EXCEPT !.lines = @ \o SubSeq(parent.Lines, st.old + 1, j),
                                     !.old = j],
                          h.Data, 1, parent, commit)

RECURSIVE RefHunks(_, _, _, _, _)
RefHunks(st, hunks, k, parent, commit) ==
    IF k > Len(hunks) THEN st
    ELSE RefHunks(RefHunk(st, hunks[k], parent, commit), hunks, k + 1, parent, commit)

\* the reference result: the rest of the parent is copied after the last hunk
Reference(parent, hunks, commit) ==
    LET st == RefHunks([err |-> FALSE, lines |-> <<>>, old |-> 0],
                       AscendingHunks(hunks), 1, parent, commit)
    IN  IF st.err THEN [panic |-> TRUE, blame |-> ZeroBlame]
        ELSE [panic |-> FALSE,
              blame |-> MkBlame(st.lines \o SubSeq(parent.Lines, st.old + 1,
                                                   Len(parent.Lines)), commit)]

\* ------------------------------------------------------------------------
\* What a hunk touches
\* ------------------------------------------------------------------------
\* the parent of a one-parent call (Blame{} when there is none)
TheParent == IF Len(parents) = 0 THEN ZeroBlame ELSE parents[1]

\* the number of body lines of h whose first byte is in ops
CountOps(h, ops) == Cardinality({j \in 1..Len(h.Data) : Len(h.Data[j]) > 0 /\ h.Data[j][1] \in ops})

\* the parent lines hunk h covers: from First (0-based) up to, not including, Last
HunkFirst(h) == IF h.Locations[1] - 1 < 0 THEN 0 ELSE h.Locations[1] - 1
HunkLast(h) == HunkFirst(h) + CountOps(h, {" ", "\t", "-"})

\* the hunks stay inside the parent
InsideParent(hunks, parent) ==
    \A k \in 1..Len(hunks) : HunkLast(hunks[k]) <= Len(parent.Lines)

\* the hunks are disjoint: different offsets, and the one with the smaller
\* offset ends before the other begins
DisjointHunks(hunks) ==
    \A k, l \in 1..Len(hunks) :
        (k # l /\ hunks[k].Locations[1] <= hunks[l].Locations[1]) =>
            /\ hunks[k].Locations[1] < hunks[l].Locations[1]
            /\ HunkLast(hunks[k]) <= HunkFirst(hunks[l])

\* ------------------------------------------------------------------------
\* C1: single-parent apply (in place, hunks in descending offset order)
\* returns exactly what the reference algorithm (ascending order, cursor
\* old_index) returns, for every parent and every diff whose hunks are
\* disjoint and stay inside the parent.
\* ------------------------------------------------------------------------
C1_MatchesReference ==
    (/\ apc = "done"
     /\ Len(parents) <= 1
     /\ DisjointHunks(given)
     /\ InsideParent(given, TheParent))
    => out = Reference(TheParent, given, NewCommit)

\* two hunks that both change the parent have been applied
C1_Witness ==
    /\ apc = "done"
    /\ Len(parents) = 1
    /\ Len(given) = 2
    /\ DisjointHunks(given)
    /\ InsideParent(given, TheParent)
    /\ \A k \in 1..2 : CountOps(given[k], {"-"}) > 0
    /\ \E k \in 1..2 : CountOps(given[k], {"+"}) > 0
    /\ ~out.panic
    /\ Len(out.blame.Lines) = 1

\* ------------------------------------------------------------------------
\* Combined diffs
\* ------------------------------------------------------------------------
\* the ops and the data of a body line of an n-parent combined diff
OpsOf(b, n) == SubSeq(b, 1, n)
DataOf(b, n) == SubSeq(b, n + 1, Len(b))

HasOps(h, n) == \A j \in 1..Len(h.Data) : Len(h.Data[j]) >= n

\* a hunk whose body is: context, the mainline's version removed ("- "), the
\* other parent's version removed (" -"), the resolution added ("++"), context;
\* c is the number of context lines before them
ConflictAt(h, c) ==
    /\ Len(h.Locations) = 2
    /\ HasOps(h, 2)
    /\ c + 3 <= Len(h.Data)
    /\ OpsOf(h.Data[c + 1], 2) = <<"-", " ">>
    /\ OpsOf(h.Data[c + 2], 2) = <<" ", "-">>
    /\ OpsOf(h.Data[c + 3], 2) = <<"+", "+">>
    /\ \A j \in 1..Len(h.Data) : j \notin (c + 1)..(c + 3) => OpsOf(h.Data[j], 2) = <<" ", " ">>

\* what the merge is to return then: the mainline parent with the replaced
\* line standing for the resolution, attributed to the commit applied
Resolved(h, c, parent, commit) ==
    [parent.Lines EXCEPT ![HunkFirst(h) + c + 1] = MkLine(DataOf(h.Data[c + 3], 2), commit)]

\* ------------------------------------------------------------------------
\* C2: when both parents replaced the same line and the combined diff removes
\* each parent's version and adds the resolution with '+' in every column,
\* merge apply returns the mainline parent with the resolution, attributed
\* to the merge, at the place of the replaced line, all other lines as they
\* were.
\* ------------------------------------------------------------------------
C2_ConflictResolution ==
    \A c \in 0..MaxBody :
        (/\ apc = "done"
         /\ Len(parents) = 2
         /\ Len(given) = 1
         /\ ConflictAt(given[1], c)
         /\ HunkFirst(given[1]) + Len(given[1].Data) - 2 <= Len(parents[1].Lines))
        => /\ ~out.panic
           /\ out.blame.Lines = Resolved(given[1], c, parents[1], NewCommit)

\* ------------------------------------------------------------------------
\* C3: in merge apply a line added to the mainline ('+' in column 0) that a
\* merge parent k has (' ' in column k) is inserted with the commit that
\* parent k's blame records for that very line; a '+' line no parent has is
\* attributed to the merge commit.
\* ------------------------------------------------------------------------
\* body line b stands for a line of parent k: removed from it, or kept
InParent(b, k, n) ==
    \/ b[k] = "-"
    \/ b[k] = " " /\ \A j \in 1..n : b[j] # "-"

\* the index (0-based) in parent k of the line that body line j stands for
ParentIndex(h, k, j, n) ==
    (IF h.Locations[k] - 1 < 0 THEN 0 ELSE h.Locations[k] - 1)
    + Cardinality({i \in 1..(j - 1) : InParent(h.Data[i], k, n)})

\* h is a hunk of a combined diff against prnts: it begins inside every
\* parent, every op is ' ', '-' or '+', no line is both added and removed, and
\* the lines that stand for lines of parent k are the lines of parent k from
\* the hunk's offset on
ValidCombined(h, prnts) ==
    LET n == Len(prnts)
    IN  /\ Len(h.Locations) = n
        /\ HasOps(h, n)
        /\ \A k \in 1..n : h.Locations[k] - 1 <= Len(prnts[k].Lines)
        /\ \A j \in 1..Len(h.Data) :
              LET b == h.Data[j]
              IN  /\ \A k \in 1..n : b[k] \in {" ", "-", "+"}
                  /\ ~(\E k \in 1..n : b[k] = "+" /\ \E l \in 1..n : b[l] = "-")
                  /\ \A k \in 1..n :
                        InParent(b, k, n) =>
                            /\ ParentIndex(h, k, j, n) < Len(prnts[k].Lines)
                            /\ prnts[k].Lines[ParentIndex(h, k, j, n) + 1].Line = DataOf(b, n)

\* the result holds the line data with the commit
Holds(blame, data, commit) ==
    \E i \in 1..Len(blame.Lines) : blame.Lines[i] = MkLine(data, commit)

C3_ParentOfRecord ==
    (/\ apc = "done"
     /\ Len(parents) >= 2
     /\ Len(given) = 1
     /\ ValidCombined(given[1], parents))
    => /\ ~out.panic
       /\ \A j \in 1..Len(given[1].Data) :
             LET b == given[1].Data[j]
                 n == Len(parents)
                 owners == {k \in 2..n : b[k] = " "}
             IN  b[1] = "+" =>
                     IF owners = {}
                     THEN Holds(out.blame, DataOf(b, n), NewCommit)
                     ELSE \A k \in owners :
                              Holds(out.blame, DataOf(b, n),
                                    parents[k].Lines[ParentIndex(given[1], k, j, n) + 1].Commit)

\* ------------------------------------------------------------------------
\* C4: a merge apply in which the column of every merge parent is ' ' on
\* every body line
\* ------------------------------------------------------------------------
MainlineOnly(hunks, n) ==
    \A k \in 1..Len(hunks) :
        /\ Len(hunks[k].Locations) = n
        /\ \A j \in 1..Len(hunks[k].Data) :
              /\ Len(hunks[k].Data[j]) >= n
              /\ \A c \in 2..n : hunks[k].Data[j][c] = " "

\* the diff that keeps only the mainline column
MainlineColumn(hunks, n) ==
    [k \in 1..Len(hunks) |->
        [Locations |-> <<hunks[k].Locations[1]>>,
         Data |-> [j \in 1..Len(hunks[k].Data) |->
                      <<hunks[k].Data[j][1]>> \o DataOf(hunks[k].Data[j], n)]]]

\* single-parent apply against the mainline parent, hunks in the order the
\* merge apply took them
AgainstMainline == applyOneParent(parents[1], MainlineColumn(diff, Len(parents)), NewCommit)

\* C4 as stated: such a merge apply returns what single-parent apply against
\* the mainline parent returns for the mainline column, content and commit.
C4_ReducesToOneParent ==
    (/\ apc = "done"
     /\ Len(parents) >= 2
     /\ MainlineOnly(given, Len(parents)))
    => out = AgainstMainline

LineCommitsOf(blame) == {blame.Lines[i].Commit : i \in 1..Len(blame.Lines)}

\* C4 amended: when such a merge apply succeeds, so does single-parent apply
\* against the mainline parent for the mainline column, and both return the
\* same line contents in the same order and the same commit on every line
\* kept from the mainline parent; a line the diff inserts carries a commit
\* recorded in the last parent's blame, not the applied commit.
C4_ReducesUpToOwner ==
    (/\ apc = "done"
     /\ Len(parents) >= 2
     /\ MainlineOnly(given, Len(parents))
     /\ ~out.panic)
    => LET one == AgainstMainline.blame.Lines
           mrg == out.blame.Lines
       IN  /\ ~AgainstMainline.panic
           /\ Len(mrg) = Len(one)
           /\ \A i \in 1..Len(one) :
                 /\ mrg[i].Line = one[i].Line
                 /\ one[i].Commit # NewCommit => mrg[i].Commit = one[i].Commit
                 /\ one[i].Commit = NewCommit =>
                        mrg[i].Commit \in LineCommitsOf(parents[Len(parents)])

\* a merge of two hunks, with an insertion and a deletion, has succeeded
C4_Witness ==
    /\ apc = "done"
    /\ Len(parents) = 2
    /\ Len(given) = 2
    /\ MainlineOnly(given, 2)
    /\ ~out.panic
    /\ \E k \in 1..2 : CountOps(given[k], {"+"}) > 0
    /\ \E k \in 1..2 : CountOps(given[k], {"-"}) > 0

\* ------------------------------------------------------------------------
\* C5: the commit of every line of a blame that Apply returns for commit C
\* is C or the commit of a line of one of the parent blames passed in.
\* ------------------------------------------------------------------------
C5_Provenance ==
    (apc = "done" /\ ~out.panic)
    => /\ out.blame.Commit = NewCommit
       /\ \A i \in 1..Len(out.blame.Lines) :
             \/ out.blame.Lines[i].Commit = NewCommit
             \/ \E k \in 1..Len(parents) :
                   out.blame.Lines[i].Commit \in LineCommitsOf(parents[k])

\* a merge has returned a line kept from the mainline parent, a line owned by
\* the other parent and a line of its own
C5_Witness ==
    /\ apc = "done"
    /\ Len(parents) = 2
    /\ ~out.panic
    /\ \E i \in 1..Len(out.blame.Lines) :
          out.blame.Lines[i].Commit \in LineCommitsOf(parents[2]) \ LineCommitsOf(parents[1])
    /\ \E i \in 1..Len(out.blame.Lines) :
          out.blame.Lines[i].Commit \in LineCommitsOf(parents[1]) \ LineCommitsOf(parents[2])
    /\ \E i \in 1..Len(out.blame.Lines) : out.blame.Lines[i].Commit = NewCommit

\* ------------------------------------------------------------------------
\* C10: whenever a hunk refers to a line index outside the blame being
\* edited, Apply fails and returns no blame.
\* ------------------------------------------------------------------------
\* body line j of hunk h, the only hunk of the diff, refers to a line index
\* outside the parent: a context line or a deletion at or past the end, an
\* insertion past the end (an insertion at the end appends)
LineOutOfRange(h, j, parent) ==
    LET pos == HunkFirst(h)
               + Cardinality({i \in 1..(j - 1) : Len(h.Data[i]) > 0
                                                /\ h.Data[i][1] \in {" ", "\t", "-"}})
    IN  /\ Len(h.Data[j]) > 0
        /\ \/ h.Data[j][1] \in {" ", "\t", "-"} /\ pos >= Len(parent.Lines)
           \/ h.Data[j][1] = "+" /\ pos > Len(parent.Lines)

C10_OutOfRangeIsFatal ==
    (/\ apc = "done"
     /\ Len(given) = 1
     /\ Len(parents) <= 1 \/ MainlineOnly(given, Len(parents))
     /\ \E j \in 1..Len(given[1].Data) :
           LineOutOfRange(given[1], j, IF Len(parents) = 0 THEN ZeroBlame ELSE parents[1]))
    => out.panic

\* ------------------------------------------------------------------------
\* Rip: the driver (rip.go)
\*
\* Three parties run concurrently: Rip itself (streamCommits, close(commits),
\* wg.Wait, the final select on errors), the processing goroutine started at
\* line 65, and the workers of the pool, which run the callback handed to
\* pool.Submit once for each file of the commit.  The caller's consumer
\* receives from the results channel.  An unrecovered panic ends the process.
\* ------------------------------------------------------------------------
\* file names, in ascending order
FileNames == <<"a.go", "b.go", "c.go", "d.go">>

\* the position of a file name in the ascending order of names
Rank(f) == CHOOSE i \in 1..Len(FileNames) : FileNames[i] = f

\* commit.Files of the commits drawn: any set of at most MaxFiles names
FileSets == SUBSET {FileNames[i] : i \in 1..MaxFiles}

\* the SHA of the commit at index c of the stream
ShaOf(c) == c

\* BlameResult of file f of commit c
ResultOf(c, f) == [sha |-> ShaOf(c), file |-> f]

\* the error a failed blame job of file f of commit c reports
ErrorOf(c, f) == [sha |-> ShaOf(c), file |-> f]

\* filetotal := len(commit.Files); the pool passes the same number as total
FileTotal(c) == Cardinality(stream[c])

\* the mutant of IsLast: the count is compared as it was before this callback
IsLastOffByOne(total, count) == total = count + 1

\* last := total == filecount
IsLast(total, count) == total = count

\* the mutant of SortByFilename: the results stay in the order of arrival
ArrivalOrder(arr) == arr

\* sort.Slice(arr, arr[i].Filename < arr[j].Filename)
SortByFilename(arr) ==
    LET q == CHOOSE r \in Perms(arr) :
                 \A k \in 1..(Len(arr) - 1) : Rank(arr[r[k]].file) <= Rank(arr[r[k + 1]].file)
    IN  [k \in 1..Len(arr) |-> arr[q[k]]]

\* the mutant of Oldest: the newest value of the channel is taken
Newest(ch) == [item |-> ch[Len(ch)], rest |-> SubSeq(ch, 1, Len(ch) - 1)]

\* a receive from a channel takes the oldest value of its buffer
Oldest(ch) == [item |-> Head(ch), rest |-> Tail(ch)]

ApplyIdle ==
    /\ parents = <<>>
    /\ diff = <<>>
    /\ given = <<>>
    /\ isBinary = FALSE
    /\ out = NoOutcome
    /\ apc = "idle"

\* Rip has been called: the channels are made, the goroutine is started
InitRip ==
    /\ stream \in UNION {[1..n -> FileSets] : n \in 0..MaxCommits}
    /\ resultsCap \in 0..MaxResultsCap
    /\ sent = 0
    /\ commitsCh = <<>>
    /\ closed = FALSE
    /\ mpc = "stream"
    /\ ret = <<>>
    /\ gpc = "recv"
    /\ cur = 0
    /\ jobs = {}
    /\ backlog = <<>>
    /\ filecount = [c \in 1..Len(stream) |-> 0]
    /\ resCh = [c \in 1..Len(stream) |-> <<>>]
    /\ resClosed = [c \in 1..Len(stream) |-> FALSE]
    /\ localerrors = [c \in 1..Len(stream) |-> <<>>]
    /\ wgDone = [c \in 1..Len(stream) |-> 0]
    /\ results = <<>>
    /\ waiting = FALSE
    /\ sink = <<>>
    /\ errorsCh = <<>>
    /\ crashed = FALSE
    /\ calls = <<>>
    /\ submitted = <<>>
    /\ ApplyIdle
    /\ StoreIdle
    /\ IgnoreIdle

\* streamCommits puts the next commit on the commits channel
StreamCommit ==
    /\ ~crashed
    /\ mpc = "stream"
    /\ sent < Len(stream)
    /\ Len(commitsCh) < CommitsCap
    /\ commitsCh' = Append(commitsCh, sent + 1)
    /\ sent' = sent + 1
    /\ UNCHANGED <<stream, resultsCap, closed, mpc, ret, gpc, cur, jobs, backlog, filecount,
                   resCh, resClosed, localerrors, wgDone, results, waiting, sink, errorsCh,
                   crashed, calls, submitted>>
    /\ UNCHANGED applyVars
    /\ UNCHANGED storeVars
    /\ UNCHANGED ignoreVars

\* the error streamCommits returns when it fails
StreamError == [sha |-> 0, file |-> "streamCommits"]

\* streamCommits fails: Rip returns its error at once
StreamFails ==
    /\ ~crashed
    /\ mpc = "stream"
    /\ ret' = <<StreamError>>
    /\ mpc' = "returned"
    /\ UNCHANGED <<stream, resultsCap, sent, commitsCh, closed, gpc, cur, jobs, backlog,
                   filecount, resCh, resClosed, localerrors, wgDone, results, waiting, sink,
                   errorsCh, crashed, calls, submitted>>
    /\ UNCHANGED applyVars
    /\ UNCHANGED storeVars
    /\ UNCHANGED ignoreVars

\* streamCommits has returned nil: close(commits), then wg.Wait()
CloseCommits ==
    /\ ~crashed
    /\ mpc = "stream"
    /\ sent = Len(stream)
    /\ closed' = TRUE
    /\ mpc' = "wait"
    /\ UNCHANGED <<stream, resultsCap, sent, commitsCh, ret, gpc, cur, jobs, backlog,
                   filecount, resCh, resClosed, localerrors, wgDone, results, waiting, sink,
                   errorsCh, crashed, calls, submitted>>
    /\ UNCHANGED applyVars
    /\ UNCHANGED storeVars
    /\ UNCHANGED ignoreVars

\* wg.Wait() returns once the goroutine has returned; pool.Close(); then the
\* select takes an error from the errors channel, or returns nil
RipReturns ==
    /\ ~crashed
    /\ mpc = "wait"
    /\ gpc = "done"
    /\ IF errorsCh # <<>>
       THEN ret' = <<Oldest(errorsCh).item>> /\ errorsCh' = Oldest(errorsCh).rest
       ELSE ret' = <<>> /\ errorsCh' = errorsCh
    /\ mpc' = "returned"
    /\ UNCHANGED <<stream, resultsCap, sent, commitsCh, closed, gpc, cur, jobs, backlog,
                   filecount, resCh, resClosed, localerrors, wgDone, results, waiting, sink,
                   crashed, calls, submitted>>
    /\ UNCHANGED applyVars
    /\ UNCHANGED storeVars
    /\ UNCHANGED ignoreVars

\* for commit := range commits, a commit without files: continue
SkipEmptyCommit ==
    /\ ~crashed
    /\ gpc = "recv"
    /\ commitsCh # <<>>
    /\ FileTotal(Oldest(commitsCh).item) = 0
    /\ commitsCh' = Oldest(commitsCh).rest
    /\ UNCHANGED <<stream, resultsCap, sent, closed, mpc, ret, gpc, cur, jobs, backlog,
                   filecount, resCh, resClosed, localerrors, wgDone, results, waiting, sink,
                   errorsCh, crashed, calls, submitted>>
    /\ UNCHANGED applyVars
    /\ UNCHANGED storeVars
    /\ UNCHANGED ignoreVars

\* for commit := range commits, a commit with files: the variables of the
\* pass are made, pool.Submit hands one job per file to the pool, and the
\* goroutine goes to localwg.Wait()
SubmitCommit ==
    /\ ~crashed
    /\ gpc = "recv"
    /\ commitsCh # <<>>
    /\ LET c == Oldest(commitsCh).item
       IN  /\ FileTotal(c) # 0
           /\ cur' = c
           /\ jobs' = jobs \cup {<<c, f>> : f \in stream[c]}
           /\ submitted' = Append(submitted, c)
    /\ commitsCh' = Oldest(commitsCh).rest
    /\ gpc' = "wait"
    /\ UNCHANGED <<stream, resultsCap, sent, closed, mpc, ret, backlog, filecount, resCh,
                   resClosed, localerrors, wgDone, results, waiting, sink, errorsCh,
                   crashed, calls>>
    /\ UNCHANGED applyVars
    /\ UNCHANGED storeVars
    /\ UNCHANGED ignoreVars

\* the commits channel is closed and empty: the loop ends, the goroutine
\* returns (defer wg.Done())
GoroutineEnds ==
    /\ ~crashed
    /\ gpc = "recv"
    /\ commitsCh = <<>>
    /\ closed
    /\ gpc' = "done"
    /\ UNCHANGED <<stream, resultsCap, sent, commitsCh, closed, mpc, ret, cur, jobs, backlog,
                   filecount, resCh, resClosed, localerrors, wgDone, results, waiting, sink,
                   errorsCh, crashed, calls, submitted>>
    /\ UNCHANGED applyVars
    /\ UNCHANGED storeVars
    /\ UNCHANGED ignoreVars

\* a worker runs the callback with an error for file f of commit c: the error
\* goes to localerrors (panic when that channel is full)
CallbackError(c, f) ==
    /\ ~crashed
    /\ <<c, f>> \in jobs
    /\ jobs' = jobs \ {<<c, f>>}
    /\ calls' = Append(calls, [sha |-> ShaOf(c), file |-> f, failed |-> TRUE])
    /\ filecount' = [filecount EXCEPT ![c] = @ + 1]
    /\ IF Len(localerrors[c]) < FileTotal(c)
       THEN /\ localerrors' = [localerrors EXCEPT ![c] = Append(@, ErrorOf(c, f))]
            /\ crashed' = crashed
       ELSE /\ localerrors' = localerrors
            /\ crashed' = TRUE
    /\ UNCHANGED <<stream, resultsCap, sent, commitsCh, closed, mpc, ret, gpc, cur, backlog,
                   resCh, resClosed, wgDone, results, waiting, sink, errorsCh, submitted>>
    /\ UNCHANGED applyVars
    /\ UNCHANGED storeVars
    /\ UNCHANGED ignoreVars

\* a worker runs the callback with the result of file f of commit c: the
\* result is cached in backlog under its SHA; when it is the last of its
\* commit the cached results are sorted by file name and sent to res (panic
\* when res is full or closed), the key is deleted (panic when backlog is
\* not empty then) and localwg.Done() runs (panic when it has run before)
CallbackResult(c, f) ==
    /\ ~crashed
    /\ <<c, f>> \in jobs
    /\ jobs' = jobs \ {<<c, f>>}
    /\ calls' = Append(calls, [sha |-> ShaOf(c), file |-> f, failed |-> FALSE])
    /\ filecount' = [filecount EXCEPT ![c] = @ + 1]
    /\ LET last == IsLast(FileTotal(c), filecount[c] + 1)
           sha == ResultOf(c, f).sha
           arr == (IF sha \in DOMAIN backlog THEN backlog[sha] ELSE <<>>)
                  \o <<ResultOf(c, f)>>
           cached == [k \in DOMAIN backlog \cup {sha} |-> IF k = sha THEN arr ELSE backlog[k]]
           deleted == [k \in DOMAIN backlog \ {sha} |-> backlog[k]]
       IN  IF ShaOf(c) # sha
           THEN crashed' = TRUE /\ backlog' = cached /\ UNCHANGED <<resCh, wgDone>>
           ELSE IF ~last
           THEN backlog' = cached /\ UNCHANGED <<resCh, wgDone, crashed>>
           ELSE /\ backlog' = deleted
                /\ IF resClosed[c] \/ Len(resCh[c]) + Len(arr) > FileTotal(c)
                   THEN crashed' = TRUE /\ UNCHANGED <<resCh, wgDone>>
                   ELSE /\ resCh' = [resCh EXCEPT ![c] = @ \o SortByFilename(arr)]
                        /\ wgDone' = [wgDone EXCEPT ![c] = @ + 1]
                        /\ crashed' = (DOMAIN deleted # {} \/ wgDone[c] >= 1)
    /\ UNCHANGED <<stream, resultsCap, sent, commitsCh, closed, mpc, ret, gpc, cur,
                   resClosed, localerrors, results, waiting, sink, errorsCh, submitted>>
    /\ UNCHANGED applyVars
    /\ UNCHANGED storeVars
    /\ UNCHANGED ignoreVars

\* the mutant of CloseRes: res is closed without waiting for localwg
CloseResNoWait ==
    /\ ~crashed
    /\ gpc = "wait"
    /\ resClosed' = [resClosed EXCEPT ![cur] = TRUE]
    /\ gpc' = "forward"
    /\ UNCHANGED <<stream, resultsCap, sent, commitsCh, closed, mpc, ret, cur, jobs, backlog,
                   filecount, resCh, localerrors, wgDone, results, waiting, sink, errorsCh,
                   crashed, calls, submitted>>
    /\ UNCHANGED applyVars
    /\ UNCHANGED storeVars
    /\ UNCHANGED ignoreVars

\* localwg.Wait() returns; close(res)
CloseRes ==
    /\ ~crashed
    /\ gpc = "wait"
    /\ wgDone[cur] >= 1
    /\ resClosed' = [resClosed EXCEPT ![cur] = TRUE]
    /\ gpc' = "forward"
    /\ UNCHANGED <<stream, resultsCap, sent, commitsCh, closed, mpc, ret, cur, jobs, backlog,
                   filecount, resCh, localerrors, wgDone, results, waiting, sink, errorsCh,
                   crashed, calls, submitted>>
    /\ UNCHANGED applyVars
    /\ UNCHANGED storeVars
    /\ UNCHANGED ignoreVars

\* for r := range res: results <- r succeeds, handed to the waiting consumer
\* or put in the buffer
ForwardResult ==
    /\ ~crashed
    /\ gpc = "forward"
    /\ resCh[cur] # <<>>
    /\ waiting \/ Len(results) < resultsCap
    /\ resCh' = [resCh EXCEPT ![cur] = Oldest(@).rest]
    /\ IF waiting
       THEN /\ sink' = Append(sink, Oldest(resCh[cur]).item)
            /\ waiting' = FALSE
            /\ results' = results
       ELSE /\ results' = Append(results, Oldest(resCh[cur]).item)
            /\ UNCHANGED <<sink, waiting>>
    /\ UNCHANGED <<stream, resultsCap, sent, commitsCh, closed, mpc, ret, gpc, cur, jobs,
                   backlog, filecount, resClosed, localerrors, wgDone, errorsCh, crashed,
                   calls, submitted>>
    /\ UNCHANGED applyVars
    /\ UNCHANGED storeVars
    /\ UNCHANGED ignoreVars

\* for r := range res: results <- r cannot proceed, the default case panics
ForwardPanics ==
    /\ ~crashed
    /\ gpc = "forward"
    /\ resCh[cur] # <<>>
    /\ ~waiting
    /\ Len(results) >= resultsCap
    /\ crashed' = TRUE
    /\ UNCHANGED <<stream, resultsCap, sent, commitsCh, closed, mpc, ret, gpc, cur, jobs,
                   backlog, filecount, resCh, resClosed, localerrors, wgDone, results,
                   waiting, sink, errorsCh, calls, submitted>>
    /\ UNCHANGED applyVars
    /\ UNCHANGED storeVars
    /\ UNCHANGED ignoreVars

\* the mutant of ReportError: the error is sent on and the loop goes on to
\* the next commit instead of returning
ReportErrorContinues ==
    /\ ~crashed
    /\ gpc = "forward"
    /\ resCh[cur] = <<>>
    /\ localerrors[cur] # <<>>
    /\ Len(errorsCh) < ErrorsCap
    /\ errorsCh' = Append(errorsCh, Oldest(localerrors[cur]).item)
    /\ localerrors' = [localerrors EXCEPT ![cur] = Oldest(@).rest]
    /\ gpc' = "recv"
    /\ UNCHANGED <<stream, resultsCap, sent, commitsCh, closed, mpc, ret, cur, jobs, backlog,
                   filecount, resCh, resClosed, wgDone, results, waiting, sink, crashed,
                   calls, submitted>>
    /\ UNCHANGED applyVars
    /\ UNCHANGED storeVars
    /\ UNCHANGED ignoreVars

\* res is drained and localerrors holds an error: errors <- err; return
ReportError ==
    /\ ~crashed
    /\ gpc = "forward"
    /\ resCh[cur] = <<>>
    /\ localerrors[cur] # <<>>
    /\ Len(errorsCh) < ErrorsCap
    /\ errorsCh' = Append(errorsCh, Oldest(localerrors[cur]).item)
    /\ localerrors' = [localerrors EXCEPT ![cur] = Oldest(@).rest]
    /\ gpc' = "done"
    /\ UNCHANGED <<stream, resultsCap, sent, commitsCh, closed, mpc, ret, cur, jobs, backlog,
                   filecount, resCh, resClosed, wgDone, results, waiting, sink, crashed,
                   calls, submitted>>
    /\ UNCHANGED applyVars
    /\ UNCHANGED storeVars
    /\ UNCHANGED ignoreVars

\* res is drained and localerrors is empty: on to the next commit
NextCommit ==
    /\ ~crashed
    /\ gpc = "forward"
    /\ resCh[cur] = <<>>
    /\ localerrors[cur] = <<>>
    /\ gpc' = "recv"
    /\ UNCHANGED <<stream, resultsCap, sent, commitsCh, closed, mpc, ret, cur, jobs, backlog,
                   filecount, resCh, resClosed, localerrors, wgDone, results, waiting, sink,
                   errorsCh, crashed, calls, submitted>>
    /\ UNCHANGED applyVars
    /\ UNCHANGED storeVars
    /\ UNCHANGED ignoreVars

\* the consumer takes a result from the buffer of the results channel
ConsumerReceives ==
    /\ ~crashed
    /\ results # <<>>
    /\ sink' = Append(sink, Oldest(results).item)
    /\ results' = Oldest(results).rest
    /\ UNCHANGED <<stream, resultsCap, sent, commitsCh, closed, mpc, ret, gpc, cur, jobs,
                   backlog, filecount, resCh, resClosed, localerrors, wgDone, waiting,
                   errorsCh, crashed, calls, submitted>>
    /\ UNCHANGED applyVars
    /\ UNCHANGED storeVars
    /\ UNCHANGED ignoreVars

\* the consumer finds the results channel empty and blocks in its receive
ConsumerWaits ==
    /\ ~crashed
    /\ results = <<>>
    /\ ~waiting
    /\ waiting' = TRUE
    /\ UNCHANGED <<stream, resultsCap, sent, commitsCh, closed, mpc, ret, gpc, cur, jobs,
                   backlog, filecount, resCh, resClosed, localerrors, wgDone, results, sink,
                   errorsCh, crashed, calls, submitted>>
    /\ UNCHANGED applyVars
    /\ UNCHANGED storeVars
    /\ UNCHANGED ignoreVars

\* the steps of Rip, of its goroutine and of the pool's workers
RipStep ==
    \/ StreamCommit
    \/ StreamFails
    \/ CloseCommits
    \/ RipReturns
    \/ SkipEmptyCommit
    \/ SubmitCommit
    \/ GoroutineEnds
    \/ \E j \in jobs : CallbackError(j[1], j[2])
    \/ \E j \in jobs : CallbackResult(j[1], j[2])
    \/ CloseRes
    \/ ForwardResult
    \/ ForwardPanics
    \/ ReportError
    \/ NextCommit

NextRip == RipStep \/ ConsumerReceives \/ ConsumerWaits

SpecRip == InitRip /\ [][NextRip]_vars

\* ------------------------------------------------------------------------
\* Claims about Rip
\* ------------------------------------------------------------------------
\* the results sent to the results channel so far, in the order of sending
Emitted == sink \o results

\* the callback of every file job of commit c has run
AllCallbacksRan(c) ==
    \A f \in stream[c] : \E i \in 1..Len(calls) : calls[i].sha = ShaOf(c) /\ calls[i].file = f

\* every result of commit c has been sent to the results channel
AllSent(c) == \A f \in stream[c] : \E i \in 1..Len(Emitted) : Emitted[i] = ResultOf(c, f)

\* a blame job has reported an error
SomeJobFailed == \E i \in 1..Len(calls) : calls[i].failed

\* C6: the results are sent to the results channel in the order in which
\* their commits arrived on the commit stream: no result of a commit is sent
\* after a result of a commit that arrived later, and when a result of a
\* commit has been sent, every result of every commit with files that
\* arrived earlier has been sent.
C6_EmissionFollowsCommitOrder ==
    /\ \A i, j \in 1..Len(Emitted) : i < j => Emitted[i].sha <= Emitted[j].sha
    /\ \A i \in 1..Len(Emitted) : \A c \in 1..Len(stream) :
           ShaOf(c) < Emitted[i].sha => AllSent(c)

\* C6 witness: results of two commits have been sent, and the callbacks of
\* the earlier commit did not run in the order of the file names.
C6_Witness ==
    /\ \E i, j \in 1..Len(Emitted) : Emitted[i].sha < Emitted[j].sha
    /\ \E i, j \in 1..Len(calls) :
           /\ i < j
           /\ calls[i].sha = calls[j].sha
           /\ Rank(calls[i].file) > Rank(calls[j].file)
           /\ \E k \in 1..Len(Emitted) : calls[i].sha < Emitted[k].sha

\* C7: no result of a commit is sent to the results channel until the
\* callback of every file job of that commit has run, and when a commit is
\* submitted to the pool every result of every commit submitted before it
\* has been sent.
C7_AwaitsEveryFile ==
    /\ \A i \in 1..Len(Emitted) :
           \E c \in 1..Len(stream) : ShaOf(c) = Emitted[i].sha /\ AllCallbacksRan(c)
    /\ \A k \in 1..(Len(submitted) - 1) : AllSent(submitted[k])

\* C7 witness: a commit of two files has had its results sent and the next
\* commit has been submitted.
C7_Witness ==
    /\ Len(submitted) = 2
    /\ FileTotal(submitted[1]) = 2
    /\ AllSent(submitted[1])
    /\ Len(Emitted) >= 2

\* C8: when a blame job has reported an error and the process has not
\* panicked, Rip returns that error and no nil, and as long as it has not
\* returned some step of Rip, of its goroutine or of a worker can be taken (it
\* does not hang).
C8_ErrorsSurface ==
    (SomeJobFailed /\ ~crashed) =>
        /\ mpc = "returned" => ret # <<>>
        /\ mpc # "returned" => ENABLED RipStep

\* C9: when no blame job and no commit stream fails, Rip does not abort, and
\* when it has returned it has returned nil and every result the pool has
\* produced has been sent to the results channel exactly once.
C9_BlocksUntilStreamed ==
    (~SomeJobFailed /\ ret # <<StreamError>>) =>
        /\ ~crashed
        /\ mpc = "returned" =>
               /\ ret = <<>>
               /\ \A c \in 1..Len(stream) : AllSent(c)
               /\ \A i, j \in 1..Len(Emitted) : Emitted[i] = Emitted[j] => i = j


\* ------------------------------------------------------------------------
\* Claims about Apply, continued
\* ------------------------------------------------------------------------
\* the hunks in the opposite order
Reversed(hunks) == [k \in 1..Len(hunks) |-> hunks[Len(hunks) + 1 - k]]

\* C11: for every call (no parent, one parent or a merge) whose diff has two
\* disjoint hunks, Apply of the diff with the two hunks in the opposite order
\* has the same outcome as the call made.
C11_HunkOrderIndependence ==
    (apc = "done" /\ Len(given) = 2 /\ DisjointHunks(given))
    => ApplyOutcomes(parents, Reversed(given), NewCommit) = {out}

\* C11 witness: two disjoint hunks given in ascending order, each changing
\* the parent, have been applied without failure.
C11_Witness ==
    /\ apc = "done"
    /\ Len(given) = 2
    /\ DisjointHunks(given)
    /\ given[1].Locations[1] < given[2].Locations[1]
    /\ \A k \in 1..2 : CountOps(given[k], {"+", "-"}) > 0
    /\ ~out.panic
    /\ Len(out.blame.Lines) > 0


\* every body line of the hunks starts with one of ops
PureOps(hunks, ops) ==
    \A k \in 1..Len(hunks) : \A j \in 1..Len(hunks[k].Data) :
        Len(hunks[k].Data[j]) > 0 /\ hunks[k].Data[j][1] \in ops

\* the number of body lines of the hunks that start with one of ops
RECURSIVE SumOps(_, _)
SumOps(hunks, ops) ==
    IF hunks = <<>> THEN 0 ELSE CountOps(Head(hunks), ops) + SumOps(Tail(hunks), ops)

\* the lines of a blame the commit being applied owns, and the other ones
OwnLines(lines) == SelectSeq(lines, LAMBDA l : l.Commit = NewCommit)
KeptLines(lines) == SelectSeq(lines, LAMBDA l : l.Commit # NewCommit)

\* C12: a call with no parent or one parent whose diff has only '+' and
\* context lines does not fail when its hunks are disjoint and inside the
\* parent, and when it does not fail the blame returned is for the commit
\* applied, has the parent's length plus the number of '+' lines, holds the
\* parent's lines unchanged and in order, and every other line carries the
\* commit applied and the data of a '+' line.
C12_PureAdditions ==
    (apc = "done" /\ Len(parents) <= 1 /\ PureOps(given, {"+", " ", "\t"}))
    => /\ (DisjointHunks(given) /\ InsideParent(given, TheParent)) => ~out.panic
       /\ ~out.panic =>
              /\ out.blame.Commit = NewCommit
              /\ Len(out.blame.Lines) = Len(TheParent.Lines) + SumOps(given, {"+"})
              /\ KeptLines(out.blame.Lines) = TheParent.Lines
              /\ Len(OwnLines(out.blame.Lines)) = SumOps(given, {"+"})
              /\ \A n \in 1..Len(out.blame.Lines) :
                     out.blame.Lines[n].Commit = NewCommit =>
                         \E k \in 1..Len(given) : \E j \in 1..Len(given[k].Data) :
                             /\ given[k].Data[j][1] = "+"
                             /\ out.blame.Lines[n].Line = Tail(given[k].Data[j])

\* C12 witness: two lines have been added in the middle of a parent of two
\* lines.
C12_Witness ==
    /\ apc = "done"
    /\ Len(parents) = 1
    /\ PureOps(given, {"+", " ", "\t"})
    /\ SumOps(given, {"+"}) = 2
    /\ ~out.panic
    /\ Len(out.blame.Lines) = 4
    /\ out.blame.Lines[1].Commit # NewCommit
    /\ out.blame.Lines[4].Commit # NewCommit



\* the lines (1-based) of the parent that the '-' lines of hunk h stand for:
\* body line j stands for the line after the context and '-' lines before it
DeletedBy(h) ==
    {HunkFirst(h) + Cardinality({m \in 1..j : h.Data[m][1] \in {" ", "\t", "-"}}) :
         j \in {n \in 1..Len(h.Data) : h.Data[n][1] = "-"}}

\* the lines of the sequence at the positions outside gone, in order
RECURSIVE Without(_, _, _)
Without(lines, gone, n) ==
    IF n > Len(lines) THEN <<>>
    ELSE (IF n \in gone THEN <<>> ELSE <<lines[n]>>) \o Without(lines, gone, n + 1)

\* a is b with some lines left out
IsSubsequence(a, b) ==
    \E gone \in SUBSET (1..Len(b)) : a = Without(b, gone, 1)

\* C13: a call with one parent whose diff has only '-' and context lines
\* returns, when its hunks are disjoint and inside the parent, the parent's
\* lines without the lines the '-' lines stand for, and whenever it does not
\* fail the blame returned has the parent's length minus the number of '-'
\* lines and its lines are lines of the parent, content and commit, in the
\* parent's order.
C13_PureDeletions ==
    (apc = "done" /\ Len(parents) <= 1 /\ PureOps(given, {"-", " ", "\t"}))
    => /\ (DisjointHunks(given) /\ InsideParent(given, TheParent)) =>
              /\ ~out.panic
              /\ out.blame.Lines =
                     Without(TheParent.Lines,
                             UNION {DeletedBy(given[k]) : k \in 1..Len(given)}, 1)
       /\ ~out.panic =>
              /\ out.blame.Commit = NewCommit
              /\ Len(out.blame.Lines) = Len(TheParent.Lines) - SumOps(given, {"-"})
              /\ IsSubsequence(out.blame.Lines, TheParent.Lines)

\* C13 witness: the first line of a parent of two lines has been deleted and
\* the second is what remains.
C13_Witness ==
    /\ apc = "done"
    /\ Len(parents) = 1
    /\ Len(TheParent.Lines) = 2
    /\ PureOps(given, {"-", " ", "\t"})
    /\ SumOps(given, {"-"}) = 1
    /\ ~out.panic
    /\ out.blame.Lines = <<TheParent.Lines[2]>>


\* the blame of an empty text file for the commit applied
EmptyTextBlame == MkBlame(<<>>, NewCommit)

\* C14: when the diff is marked binary, the blame Apply returns has no lines
\* and is not the blame of an empty text file.
C14_BinaryDispatch ==
    (apc = "done" /\ isBinary)
    => /\ ~out.panic
       /\ out.blame.Commit = NewCommit
       /\ out.blame.Lines = <<>>
       /\ out.blame # EmptyTextBlame

WithoutMarker(hunks) ==
    [k \in 1..Len(hunks) |->
        [hunks[k] EXCEPT !.Data = SelectSeq(hunks[k].Data, LAMBDA b : b # NoNewline)]]

\* a body line of the hunks is git's end-of-file marker
HasMarker(hunks) ==
    \E k \in 1..Len(hunks) : \E j \in 1..Len(hunks[k].Data) : hunks[k].Data[j] = NoNewline

\* C16: for every call, with one parent or a merge, whose diff has the
\* end-of-file marker in a hunk body, the outcome is the outcome of Apply of
\* the diff without the marker lines.
C16_MarkerDiscarded ==
    (apc = "done" /\ HasMarker(given))
    => ApplyOutcomes(parents, WithoutMarker(given), NewCommit) = {out}


\* the hunks with every offset 0 replaced by 1
ZeroAsOne(hunks) ==
    [k \in 1..Len(hunks) |->
        [hunks[k] EXCEPT !.Locations =
            [n \in 1..Len(hunks[k].Locations) |->
                IF hunks[k].Locations[n] = 0 THEN 1 ELSE hunks[k].Locations[n]]]]

\* C17: for every call whose diff is one hunk with an offset 0 at some parent
\* position, mainline or not, the outcome is the outcome of Apply of the diff
\* with 1 in the place of every offset 0.
C17_ZeroOffsetIsOne ==
    (/\ apc = "done"
     /\ Len(given) = 1
     /\ \E n \in 1..Len(given[1].Locations) : given[1].Locations[n] = 0)
    => ApplyOutcomes(parents, ZeroAsOne(given), NewCommit) = {out}


\* ------------------------------------------------------------------------
\* Claims about Rip, continued
\* ------------------------------------------------------------------------
\* C18: the results of one commit are sent to the results channel in
\* ascending order of file name, in every order of the callbacks.
C18_SortedWithinCommit ==
    \A i, j \in 1..Len(Emitted) :
        (i < j /\ Emitted[i].sha = Emitted[j].sha) =>
            Rank(Emitted[i].file) < Rank(Emitted[j].file)

\* C18 witness: the callbacks of a commit ran in descending order of file
\* name and the consumer has received both results.
C18_Witness ==
    /\ Len(calls) >= 2
    /\ calls[1].sha = calls[2].sha
    /\ Rank(calls[1].file) > Rank(calls[2].file)
    /\ ~calls[1].failed /\ ~calls[2].failed
    /\ Len(sink) >= 2
    /\ sink[1].sha = calls[1].sha /\ sink[2].sha = calls[1].sha


\* ------------------------------------------------------------------------
\* The blame store and the driver's use of it (specification, 3, 4.B, 4.C, 5)
\*
\* The history is a finite commit graph given in topological order: the
\* parents of commit c are among 1..c-1.  The driver processes the commits
\* one at a time in that order.  For a commit it borrows, for every path the
\* commit's diff touches, the entries of the commit's parents for that path
\* (get), applies, and then, in the serial phase after the applies, puts the
\* commit's blames with child_count as the count and releases each entry it
\* has consumed once.
\* ------------------------------------------------------------------------
\* the paths of the histories drawn
StorePaths == {"f", "g"}

\* child_count(h): the number of commits that list h as one of their parents
ChildCount(h) == Cardinality({c \in 1..Len(parentsOf) : h \in parentsOf[c]})

\* put(commit, path, blame, live_child_count): insert
StorePut(st, e, n) == [x \in DOMAIN st \cup {e} |-> IF x = e THEN n ELSE st[x]]

\* the mutant of StoreRelease: the entry is kept when its count reaches zero
StoreReleaseKeeps(st, e) == [st EXCEPT ![e] = @ - 1]

\* release(commit, path): decrement live_child_count; when it reaches zero,
\* drop the entry
StoreRelease(st, e) ==
    IF st[e] - 1 = 0 THEN [x \in DOMAIN st \ {e} |-> st[x]]
    ELSE [st EXCEPT ![e] = @ - 1]

\* the driver starts on a finite history with an empty store
InitStore ==
    /\ \E n \in 1..MaxHistory :
           /\ parentsOf \in {g \in [1..n -> SUBSET (1..n)] : \A c \in 1..n : g[c] \subseteq 1..(c - 1)}
           /\ touched \in [1..n -> SUBSET StorePaths]
    /\ held = <<>>
    /\ processed = 0
    /\ spc = "next"
    /\ todoPut = {}
    /\ todoRelease = {}
    /\ ApplyIdle
    /\ RipIdle
    /\ IgnoreIdle

\* the next commit c of the topological order: for every path its diff
\* touches, get borrows the entry of each parent that has one, and the
\* applies run; what is left is the serial phase
StartCommit ==
    /\ spc = "next"
    /\ processed < Len(parentsOf)
    /\ LET c == processed + 1
       IN  /\ todoPut' = touched[c]
           /\ todoRelease' = {e \in DOMAIN held : e[1] \in parentsOf[c] /\ e[2] \in touched[c]}
    /\ spc' = "post"
    /\ UNCHANGED <<parentsOf, touched, held, processed>>
    /\ UNCHANGED applyVars
    /\ UNCHANGED ripVars
    /\ UNCHANGED ignoreVars

\* the blame of path p of the commit is put, with child_count as its count
PutBlame(p) ==
    /\ spc = "post"
    /\ p \in todoPut
    /\ held' = StorePut(held, <<processed + 1, p>>, ChildCount(processed + 1))
    /\ todoPut' = todoPut \ {p}
    /\ UNCHANGED <<parentsOf, touched, processed, spc, todoRelease>>
    /\ UNCHANGED applyVars
    /\ UNCHANGED ripVars
    /\ UNCHANGED ignoreVars

\* the one release that follows the consumption of the parent entry e
ReleaseConsumed(e) ==
    /\ spc = "post"
    /\ e \in todoRelease
    /\ held' = StoreRelease(held, e)
    /\ todoRelease' = todoRelease \ {e}
    /\ UNCHANGED <<parentsOf, touched, processed, spc, todoPut>>
    /\ UNCHANGED applyVars
    /\ UNCHANGED ripVars
    /\ UNCHANGED ignoreVars

\* the commit is processed
FinishCommit ==
    /\ spc = "post"
    /\ todoPut = {}
    /\ todoRelease = {}
    /\ processed' = processed + 1
    /\ spc' = "next"
    /\ UNCHANGED <<parentsOf, touched, held, todoPut, todoRelease>>
    /\ UNCHANGED applyVars
    /\ UNCHANGED ripVars
    /\ UNCHANGED ignoreVars

NextStore ==
    \/ StartCommit
    \/ \E p \in StorePaths : PutBlame(p)
    \/ \E e \in todoRelease : ReleaseConsumed(e)
    \/ FinishCommit

SpecStore == InitStore /\ [][NextStore]_vars

\* the driver has completed
StoreDriverDone == spc = "next" /\ processed = Len(parentsOf)

Alt(start, lit, end) == [start |-> start, lit |-> lit, end |-> end]

IgnoreAlternatives ==
    <<
       Alt("any", <<"G", "o", "d", "e", "p", "s">>, FALSE),
       Alt("any", <<"v", "e", "n", "d", "o", "r", "/">>, FALSE),
       Alt("any", <<"G", "o", "p", "k", "g", ".", "l", "o", "c", "k">>, TRUE),
       Alt("any", <<"G", "o", "p", "k", "g", ".", "t", "o", "m", "l">>, TRUE),
       Alt("any", <<"g", "l", "i", "d", "e", ".", "l", "o", "c", "k">>, TRUE),
       Alt("any", <<"g", "l", "i", "d", "e", ".", "y", "a", "m", "l">>, TRUE),
       Alt("bolOrSlash", <<"g", "o", ".", "m", "o", "d">>, TRUE),
       Alt("bolOrSlash", <<"g", "o", ".", "s", "u", "m">>, TRUE),
       Alt("any", <<"C", "a", "r", "g", "o", ".", "t", "o", "m", "l">>, TRUE),
       Alt("any", <<"G", "e", "m", "f", "i", "l", "e">>, TRUE),
       Alt("any", <<".", "g", "e", "m", "s", "p", "e", "c">>, TRUE),
       Alt("any", <<"n", "o", "d", "e", "_", "m", "o", "d", "u", "l", "e", "s">>, FALSE),
       Alt("any", <<".", "w", "e", "b", "p", "a", "c", "k">>, FALSE),
       Alt("any", <<"p", "a", "c", "k", "a", "g", "e", ".", "j", "s", "o", "n">>, TRUE),
       Alt("any", <<"p", "a", "c", "k", "a", "g", "e", "-", "l", "o", "c", "k", ".", "j", "s", "o", "n">>, TRUE),
       Alt("any", <<".", "b", "a", "b", "e", "l", "r", "c">>, TRUE),
       Alt("any", <<".", "b", "a", "b", "e", "l", "r", "c", ".", "j", "s">>, TRUE),
       Alt("any", <<"b", "a", "b", "e", "l", ".", "c", "o", "n", "f", "i", "g", ".", "j", "s">>, TRUE),
       Alt("any", <<".", "f", "l", "o", "w", "c", "o", "n", "f", "i", "g">>, TRUE),
       Alt("any", <<".", "e", "s", "l", "i", "n", "t", "r", "c">>, TRUE),
       Alt("any", <<".", "e", "s", "l", "i", "n", "t", "r", "c", ".", "j", "s">>, TRUE),
       Alt("any", <<".", "e", "s", "l", "i", "n", "t", "r", "c", ".", "j", "s", "o", "n">>, TRUE),
       Alt("any", <<".", "e", "s", "l", "i", "n", "t", "i", "g", "n", "o", "r", "e">>, TRUE),
       Alt("any", <<".", "n", "p", "m", "r", "c">>, TRUE),
       Alt("any", <<".", "b", "o", "w", "e", "r", "r", "c">>, TRUE),
       Alt("any", <<".", "j", "s", "h", "i", "n", "t", "r", "c">>, TRUE),
       Alt("any", <<"j", "s", "c", "o", "n", "f", "i", "g", ".", "j", "s", "o", "n">>, TRUE),
       Alt("any", <<"t", "s", "c", "o", "n", "f", "i", "g", ".", "j", "s", "o", "n">>, TRUE),
       Alt("any", <<"l", "e", "r", "n", "a", ".", "j", "s", "o", "n">>, TRUE),
       Alt("any", <<"t", "s", "l", "i", "n", "t", ".", "y", "a", "m", "l">>, TRUE),
       Alt("any", <<"t", "s", "l", "i", "n", "t", ".", "j", "s", "o", "n">>, TRUE),
       Alt("any", <<".", "v", "s", "c", "o", "d", "e", "/">>, FALSE),
       Alt("any", <<".", "a", "n", "g", "u", "l", "a", "r", "-", "c", "l", "i", ".", "j", "s", "o", "n">>, TRUE),
       Alt("any", <<"g", "u", "l", "p", "f", "i", "l", "e", ".", "j", "s">>, TRUE),
       Alt("any", <<".", "j", "s", "b", "e", "a", "u", "t", "i", "f", "y", "r", "c">>, TRUE),
       Alt("any", <<".", "a", "r", "c">>, TRUE),
       Alt("any", <<".", "p", "r", "e", "t", "t", "i", "e", "r", "i", "g", "n", "o", "r", "e">>, TRUE),
       Alt("any", <<"m", "o", "c", "h", "a", ".", "o", "p", "t", "s">>, TRUE),
       Alt("any", <<"G", "r", "u", "n", "t", "f", "i", "l", "e">>, TRUE),
       Alt("any", <<"-", "m", "i", "n", ".", "j", "s">>, TRUE),
       Alt("any", <<".", "m", "i", "n", ".", "j", "s">>, TRUE),
       Alt("any", <<"-", "m", "i", "n", ".", "c", "s", "s">>, TRUE),
       Alt("any", <<".", "m", "i", "n", ".", "c", "s", "s">>, TRUE),
       Alt("any", <<".", "j", "s", ".", "m", "a", "p">>, TRUE),
       Alt("any", <<".", "c", "s", "s", ".", "m", "a", "p">>, TRUE),
       Alt("any", <<".", "i", "p", "y", "n", "b", "_", "c", "h", "e", "c", "k", "p", "o", "i", "n", "t", "s">>, FALSE),
       Alt("any", <<"p", "r", "o", "g", "u", "a", "r", "d">>, FALSE),
       Alt("any", <<".", "c", "l", "a", "s", "s">>, TRUE),
       Alt("any", <<".", "p", "r", "o", "j", "e", "c", "t">>, TRUE),
       Alt("any", <<".", "j", "a", "r">>, TRUE),
       Alt("bol", <<"d", "e", "x", "g", "u", "a", "r", "d", "/">>, FALSE),
       Alt("any", <<"d", "e", "x", "g", "u", "a", "r", "d", "-", "p", "r", "o", "j", "e", "c", "t", "-", "d", "e", "b", "u", "g", ".", "t", "x", "t">>, TRUE),
       Alt("any", <<"d", "e", "x", "g", "u", "a", "r", "d", "-", "p", "r", "o", "j", "e", "c", "t", "-", "r", "e", "l", "e", "a", "s", "e", ".", "t", "x", "t">>, TRUE),
       Alt("any", <<"_", "_", "p", "y", "c", "a", "c", "h", "e", "_", "_">>, FALSE),
       Alt("any", <<".", "p", "y", "c">>, TRUE),
       Alt("any", <<".", "f", "l", "a", "k", "e", "8">>, TRUE),
       Alt("any", <<".", "p", "y", "l", "i", "n", "t", "r", "c">>, TRUE),
       Alt("any", <<"t", "o", "x", ".", "i", "n", "i">>, TRUE),
       Alt("any", <<".", "p", "y", "d", "e", "v", "p", "r", "o", "j", "e", "c", "t">>, TRUE),
       Alt("any", <<".", "c", "i", "r", "c", "l", "e", "c", "i">>, FALSE),
       Alt("any", <<"c", "i", "r", "c", "l", "e", ".", "y", "m", "l">>, TRUE),
       Alt("any", <<".", "g", "i", "t", "h", "u", "b">>, FALSE),
       Alt("any", <<".", "t", "r", "a", "v", "i", "s", ".", "y", "m", "l">>, TRUE),
       Alt("any", <<"v", "e", "n", "d", "o", "r", "/", "b", "u", "n", "d", "l", "e">>, FALSE),
       Alt("any", <<"v", "e", "n", "d", "o", "r", "/", "c", "a", "c", "h", "e">>, FALSE),
       Alt("any", <<".", "s", "h", "i", "p", "p", "a", "b", "l", "e", ".", "y", "m", "l">>, TRUE),
       Alt("any", <<".", "c", "o", "d", "e", "c", "o", "v", ".", "y", "m", "l">>, TRUE),
       Alt("any", <<"C", "M", "a", "k", "e", "L", "i", "s", "t", "s", ".", "t", "x", "t">>, TRUE),
       Alt("any", <<".", "g", "i", "t", "l", "a", "b", "-", "c", "i", ".", "y", "m", "l">>, TRUE),
       Alt("any", <<".", "d", "r", "o", "n", "e", ".", "y", "m", "l">>, TRUE),
       Alt("any", <<".", "c", "o", "d", "e", "c", "o", "v", ".", "y", "m", "l">>, TRUE),
       Alt("any", <<"a", "p", "p", "v", "e", "y", "o", "r", ".", "y", "m", "l">>, TRUE),
       Alt("any", <<".", "c", "o", "d", "e", "c", "l", "i", "m", "a", "t", "e", ".", "y", "m", "l">>, TRUE),
       Alt("any", <<".", "d", "o", "c", "k", "e", "r", "i", "g", "n", "o", "r", "e">>, TRUE),
       Alt("any", <<".", "n", "p", "m", "i", "g", "n", "o", "r", "e">>, TRUE),
       Alt("any", <<".", "c", "m", "a", "k", "e", ".", "i", "n">>, TRUE),
       Alt("any", <<"M", "a", "k", "e", "f", "i", "l", "e", ".", "i", "n">>, TRUE),
       Alt("any", <<"J", "e", "n", "k", "i", "n", "s", "f", "i", "l", "e">>, TRUE),
       Alt("bol", <<"f", "a", "s", "t", "l", "a", "n", "e", "/", "A", "p", "p", "f", "i", "l", "e">>, TRUE),
       Alt("bol", <<"f", "a", "s", "t", "l", "a", "n", "e", "/", "F", "a", "s", "t", "f", "i", "l", "e">>, TRUE),
       Alt("bol", <<"b", "u", "i", "l", "d", ".", "g", "r", "a", "d", "l", "e">>, TRUE),
       Alt("bol", <<"g", "r", "a", "d", "l", "e", ".", "p", "r", "o", "p", "e", "r", "t", "i", "e", "s">>, TRUE),
       Alt("any", <<"L", "I", "C", "E", "N", "S", "E">>, FALSE),
       Alt("any", <<"L", "I", "C", "E", "N", "S", "E", ".", "m", "d">>, FALSE),
       Alt("any", <<"L", "I", "C", "E", "N", "S", "E", ".", "t", "x", "t">>, FALSE),
       Alt("any", <<"L", "I", "C", "E", "N", "S", "E", ".", "r", "s", "t">>, FALSE),
       Alt("any", <<"R", "E", "A", "D", "M", "E">>, FALSE),
       Alt("any", <<"R", "E", "A", "D", "M", "E", ".", "m", "d">>, FALSE),
       Alt("any", <<"R", "E", "A", "D", "M", "E", ".", "t", "x", "t">>, FALSE),
       Alt("any", <<"R", "E", "A", "D", "M", "E", ".", "r", "s", "t">>, FALSE),
       Alt("any", <<"A", "U", "T", "H", "O", "R", "S">>, FALSE),
       Alt("any", <<"A", "U", "T", "H", "O", "R", "S", ".", "m", "d">>, FALSE),
       Alt("any", <<"A", "U", "T", "H", "O", "R", "S", ".", "t", "x", "t">>, FALSE),
       Alt("any", <<"A", "U", "T", "H", "O", "R", "S", ".", "r", "s", "t">>, FALSE),
       Alt("any", <<"C", "H", "A", "N", "G", "E", "L", "O", "G">>, FALSE),
       Alt("any", <<"C", "H", "A", "N", "G", "E", "L", "O", "G", ".", "m", "d">>, FALSE),
       Alt("any", <<"C", "H", "A", "N", "G", "E", "L", "O", "G", ".", "t", "x", "t">>, FALSE),
       Alt("any", <<"C", "H", "A", "N", "G", "E", "L", "O", "G", ".", "r", "s", "t">>, FALSE),
       Alt("any", <<"C", "H", "A", "N", "G", "E", "S">>, FALSE),
       Alt("any", <<"C", "H", "A", "N", "G", "E", "S", ".", "m", "d">>, FALSE),
       Alt("any", <<"C", "H", "A", "N", "G", "E", "S", ".", "t", "x", "t">>, FALSE),
       Alt("any", <<"C", "H", "A", "N", "G", "E", "S", ".", "r", "s", "t">>, FALSE),
       Alt("any", <<"D", "C", "O">>, FALSE),
       Alt("any", <<"D", "C", "O", ".", "m", "d">>, FALSE),
       Alt("any", <<"D", "C", "O", ".", "t", "x", "t">>, FALSE),
       Alt("any", <<"D", "C", "O", ".", "r", "s", "t">>, FALSE),
       Alt("any", <<"C", "O", "N", "T", "R", "I", "B", "U", "T", "I", "N", "G">>, FALSE),
       Alt("any", <<"C", "O", "N", "T", "R", "I", "B", "U", "T", "I", "N", "G", ".", "m", "d">>, FALSE),
       Alt("any", <<"C", "O", "N", "T", "R", "I", "B", "U", "T", "I", "N", "G", ".", "t", "x", "t">>, FALSE),
       Alt("any", <<"C", "O", "N", "T", "R", "I", "B", "U", "T", "I", "N", "G", ".", "r", "s", "t">>, FALSE),
       Alt("any", <<"V", "E", "R", "S", "I", "O", "N">>, FALSE),
       Alt("any", <<"V", "E", "R", "S", "I", "O", "N", ".", "m", "d">>, FALSE),
       Alt("any", <<"V", "E", "R", "S", "I", "O", "N", ".", "t", "x", "t">>, FALSE),
       Alt("any", <<"V", "E", "R", "S", "I", "O", "N", ".", "r", "s", "t">>, FALSE),
       Alt("any", <<"C", "O", "D", "E", "_", "O", "F", "_", "C", "O", "N", "D", "U", "C", "T">>, FALSE),
       Alt("any", <<"C", "O", "D", "E", "_", "O", "F", "_", "C", "O", "N", "D", "U", "C", "T", ".", "m", "d">>, FALSE),
       Alt("any", <<"C", "O", "D", "E", "_", "O", "F", "_", "C", "O", "N", "D", "U", "C", "T", ".", "t", "x", "t">>, FALSE),
       Alt("any", <<"C", "O", "D", "E", "_", "O", "F", "_", "C", "O", "N", "D", "U", "C", "T", ".", "r", "s", "t">>, FALSE),
       Alt("any", <<"C", "O", "P", "Y", "I", "N", "G">>, FALSE),
       Alt("any", <<"C", "O", "P", "Y", "I", "N", "G", ".", "m", "d">>, FALSE),
       Alt("any", <<"C", "O", "P", "Y", "I", "N", "G", ".", "t", "x", "t">>, FALSE),
       Alt("any", <<"C", "O", "P", "Y", "I", "N", "G", ".", "r", "s", "t">>, FALSE),
       Alt("any", <<"I", "S", "S", "U", "E", "_", "T", "E", "M", "P", "L", "A", "T", "E">>, FALSE),
       Alt("any", <<"I", "S", "S", "U", "E", "_", "T", "E", "M", "P", "L", "A", "T", "E", ".", "m", "d">>, FALSE),
       Alt("any", <<"I", "S", "S", "U", "E", "_", "T", "E", "M", "P", "L", "A", "T", "E", ".", "t", "x", "t">>, FALSE),
       Alt("any", <<"I", "S", "S", "U", "E", "_", "T", "E", "M", "P", "L", "A", "T", "E", ".", "r", "s", "t">>, FALSE),
       Alt("any", <<"N", "O", "T", "I", "C", "E">>, FALSE),
       Alt("any", <<"N", "O", "T", "I", "C", "E", ".", "m", "d">>, FALSE),
       Alt("any", <<"N", "O", "T", "I", "C", "E", ".", "t", "x", "t">>, FALSE),
       Alt("any", <<"N", "O", "T", "I", "C", "E", ".", "r", "s", "t">>, FALSE),
       Alt("any", <<"M", "A", "I", "N", "T", "A", "I", "N", "E", "R", "S">>, FALSE),
       Alt("any", <<"M", "A", "I", "N", "T", "A", "I", "N", "E", "R", "S", ".", "m", "d">>, FALSE),
       Alt("any", <<"M", "A", "I", "N", "T", "A", "I", "N", "E", "R", "S", ".", "t", "x", "t">>, FALSE),
       Alt("any", <<"M", "A", "I", "N", "T", "A", "I", "N", "E", "R", "S", ".", "r", "s", "t">>, FALSE),
       Alt("any", <<".", "a", "r">>, TRUE),
       Alt("any", <<".", "z", "i", "p">>, TRUE),
       Alt("any", <<".", "g", "z">>, TRUE),
       Alt("any", <<".", "g", "z", "i", "p">>, TRUE),
       Alt("any", <<".", "Z">>, TRUE),
       Alt("any", <<".", "t", "a", "r">>, TRUE),
       Alt("any", <<".", "b", "z", "2">>, TRUE),
       Alt("any", <<".", "c", "a", "b">>, TRUE),
       Alt("any", <<".", "c", "r", "x">>, TRUE),
       Alt("any", <<".", "l", "z">>, TRUE),
       Alt("any", <<".", "7", "z">>, TRUE),
       Alt("any", <<".", "b", "z", "i", "p">>, TRUE),
       Alt("any", <<".", "b", "s", "o", "n">>, TRUE),
       Alt("any", <<".", "n", "u", "p", "k", "g">>, TRUE),
       Alt("any", <<".", "e", "p", "s">>, TRUE),
       Alt("any", <<".", "p", "s">>, TRUE),
       Alt("any", <<".", "g", "i", "f">>, TRUE),
       Alt("any", <<".", "p", "n", "g">>, TRUE),
       Alt("any", <<".", "j", "p", "g">>, TRUE),
       Alt("any", <<".", "j", "p", "e", "g">>, TRUE),
       Alt("any", <<".", "t", "t", "f">>, TRUE),
       Alt("any", <<".", "s", "v", "g">>, TRUE),
       Alt("any", <<".", "w", "e", "b", "p">>, TRUE),
       Alt("any", <<".", "b", "m", "p">>, TRUE),
       Alt("any", <<".", "i", "c", "o">>, TRUE),
       Alt("any", <<".", "p", "s", "d">>, TRUE),
       Alt("any", <<".", "t", "i", "f">>, TRUE),
       Alt("any", <<".", "t", "i", "f", "f">>, TRUE),
       Alt("any", <<".", "x", "c", "f">>, TRUE),
       Alt("any", <<".", "i", "c", "o">>, TRUE),
       Alt("any", <<".", "p", "s", "d">>, TRUE),
       Alt("any", <<".", "a", "i">>, TRUE),
       Alt("any", <<".", "s", "k", "e", "t", "c", "h">>, TRUE),
       Alt("any", <<".", "i", "c", "n", "s">>, TRUE),
       Alt("any", <<".", "i", "c", "c">>, TRUE),
       Alt("any", <<".", "P", "p", "d", "f">>, TRUE),
       Alt("any", <<".", "d", "o", "c">>, TRUE),
       Alt("any", <<".", "x", "l", "s">>, TRUE),
       Alt("any", <<".", "d", "o", "c", "x">>, TRUE),
       Alt("any", <<".", "d", "o", "c", "m">>, TRUE),
       Alt("any", <<".", "d", "o", "t">>, TRUE),
       Alt("any", <<".", "d", "o", "t", "m">>, TRUE),
       Alt("any", <<".", "x", "l", "s", "x">>, TRUE),
       Alt("any", <<".", "p", "p", "t">>, TRUE),
       Alt("any", <<".", "p", "p", "t", "x">>, TRUE),
       Alt("any", <<".", "r", "t", "f">>, TRUE),
       Alt("any", <<".", "m", "p", "g">>, TRUE),
       Alt("any", <<".", "m", "p", "3">>, TRUE),
       Alt("any", <<".", "m", "p", "4">>, TRUE),
       Alt("any", <<".", "o", "g", "g">>, TRUE),
       Alt("any", <<".", "a", "v", "i">>, TRUE),
       Alt("any", <<".", "m", "o", "v">>, TRUE),
       Alt("any", <<".", "f", "l", "a">>, TRUE),
       Alt("any", <<".", "f", "l", "v">>, TRUE),
       Alt("any", <<".", "m", "i", "d", "i">>, TRUE),
       Alt("any", <<".", "w", "m", "f">>, TRUE),
       Alt("any", <<".", "w", "o", "f", "f">>, TRUE),
       Alt("any", <<".", "w", "o", "f", "f", "2">>, TRUE),
       Alt("any", <<".", "e", "o", "t">>, TRUE),
       Alt("any", <<".", "o", "t", "f">>, TRUE),
       Alt("any", <<".", "a">>, TRUE),
       Alt("any", <<".", "o">>, TRUE),
       Alt("any", <<".", "d", "y", "l", "i", "b">>, TRUE),
       Alt("any", <<".", "d", "l", "l">>, TRUE),
       Alt("any", <<".", "s", "o">>, TRUE),
       Alt("any", <<".", "p", "c", "h">>, TRUE),
       Alt("any", <<".", "t", "l", "b">>, TRUE),
       Alt("any", <<".", "p", "d", "b">>, TRUE),
       Alt("any", <<".", "i", "p", "d", "b">>, TRUE),
       Alt("any", <<".", "n", "u", "p", "k", "g">>, TRUE),
       Alt("any", <<".", "l", "d", "f">>, TRUE),
       Alt("any", <<".", "n", "d", "f">>, TRUE),
       Alt("any", <<".", "p", "l", "g">>, TRUE),
       Alt("any", <<".", "h", ".", "i", "n">>, TRUE),
       Alt("any", <<".", "l", "i", "b">>, TRUE),
       Alt("any", <<".", "l", "a">>, TRUE),
       Alt("any", <<".", "l", "l", "b", "l", "g", "e", "n", "p", "r", "o", "j">>, TRUE),
       Alt("any", <<".", "o", "u", "t">>, TRUE),
       Alt("any", <<".", "a", "p", "p">>, TRUE),
       Alt("any", <<".", "s", "q", "l", "i", "t", "e">>, TRUE),
       Alt("any", <<".", "m", "d", "f">>, TRUE),
       Alt("any", <<".", "s", "d", "f">>, TRUE),
       Alt("any", <<".", "p", "e", "m">>, TRUE),
       Alt("any", <<".", "p", "1", "2">>, TRUE),
       Alt("any", <<".", "p", "f", "x">>, TRUE),
       Alt("any", <<".", "a", "s", "c">>, TRUE),
       Alt("any", <<".", "p", "k", "c", "s", "1", "2">>, TRUE),
       Alt("any", <<".", "i", "p", "r">>, TRUE),
       Alt("any", <<".", "i", "w", "s">>, TRUE),
       Alt("any", <<".", "i", "m", "l">>, TRUE),
       Alt("any", <<".", "s", "l", "n">>, TRUE),
       Alt("any", <<".", "c", "s", "p", "r", "o", "j">>, TRUE),
       Alt("any", <<".", "v", "b", "p", "r", "o", "j">>, TRUE),
       Alt("any", <<".", "f", "s", "p", "r", "o", "j">>, TRUE),
       Alt("any", <<".", "d", "b", "p", "r", "o", "j">>, TRUE),
       Alt("any", <<".", "d", "e", "b">>, TRUE),
       Alt("any", <<".", "e", "l", "f">>, TRUE),
       Alt("any", <<".", "j", "x", "r">>, TRUE),
       Alt("any", <<".", "b", "i", "n">>, TRUE),
       Alt("any", <<".", "s", "w", "f">>, TRUE),
       Alt("any", <<".", "b", "i", "n">>, TRUE),
       Alt("any", <<".", "e", "x", "a", "m", "p", "l", "e">>, TRUE),
       Alt("any", <<".", "l", "o", "g">>, TRUE),
       Alt("any", <<".", "m", "a", "i", "l", "m", "a", "p">>, TRUE),
       Alt("any", <<".", "e", "d", "i", "t", "o", "r", "c", "o", "n", "f", "i", "g">>, TRUE),
       Alt("any", <<"r", "o", "b", "o", "t", "s", ".", "t", "x", "t">>, TRUE),
       Alt("any", <<".", "v", "s", "c", "o", "d", "e", "i", "g", "n", "o", "r", "e">>, TRUE),
       Alt("any", <<".", "c", "o", "v", "e", "r", "a", "g", "e", "r", "c">>, TRUE),
       Alt("any", <<".", "s", "e", "t", "t", "i", "n", "g", "s">>, TRUE),
       Alt("any", <<".", "p", "r", "o", "j", "e", "c", "t">>, TRUE),
       Alt("any", <<".", "b", "a", "k">>, TRUE)
    >>


\* the text of the alternative is in the path from byte i on
OccursAt(alt, p, i) ==
    /\ i + Len(alt.lit) - 1 <= Len(p)
    /\ SubSeq(p, i, i + Len(alt.lit) - 1) = alt.lit

\* the mutant of StartOk: (^|/) and ^ are left out of the alternatives
StartAnywhere(alt, p, i) == TRUE

\* ^ holds at the start of the path, (^|/) at the start and after a '/'
StartOk(alt, p, i) ==
    CASE alt.start = "bol" -> i = 1
      [] alt.start = "bolOrSlash" -> i = 1 \/ p[i - 1] = "/"
      [] OTHER -> TRUE

\* $ holds at the end of the path
EndOk(alt, p, i) == alt.end => i + Len(alt.lit) - 1 = Len(p)

AltMatches(alt, p) ==
    \E i \in 1..(Len(p) + 1) : OccursAt(alt, p, i) /\ StartOk(alt, p, i) /\ EndOk(alt, p, i)

\* ignorePatterns.MatchString(p)
MatchString(p) ==
    \E k \in 1..Len(IgnoreAlternatives) : AltMatches(IgnoreAlternatives[k], p)

\* the paths drawn: up to MaxPrefix bytes followed by a file name
PathBytes == {"f", "o", "/", ".", "D", "C", "O"}

GoMod == <<"g", "o", ".", "m", "o", "d">>
GoSum == <<"g", "o", ".", "s", "u", "m">>

FileTails ==
    {GoMod, GoSum, GoMod \o <<"s">>, <<"g", "o", "m", "o", "d">>, GoSum \o <<"/", "f">>}

InitIgnore ==
    /\ \E n \in 0..MaxPrefix : \E pre \in [1..n -> PathBytes] : \E t \in FileTails :
           path = pre \o t
    /\ ignored = <<>>
    /\ ApplyIdle
    /\ RipIdle
    /\ StoreIdle

\* the call ignorePatterns.MatchString(path)
CallMatchString ==
    /\ ignored = <<>>
    /\ path # <<>>
    /\ ignored' = <<MatchString(path)>>
    /\ path' = path
    /\ UNCHANGED applyVars
    /\ UNCHANGED ripVars
    /\ UNCHANGED storeVars

NextIgnore == CallMatchString

SpecIgnore == InitIgnore /\ [][NextIgnore]_vars

\* the path ends with the bytes t
EndsWith(p, t) == Len(p) >= Len(t) /\ SubSeq(p, Len(p) - Len(t) + 1, Len(p)) = t

\* t is the whole last segment of the path
WholeSegment(p, t) == EndsWith(p, t) /\ (Len(p) = Len(t) \/ p[Len(p) - Len(t)] = "/")

\* an alternative other than the two for go.mod and go.sum matches the path
OtherMatches(p) ==
    \E k \in 1..Len(IgnoreAlternatives) :
        /\ IgnoreAlternatives[k].lit \notin {GoMod, GoSum}
        /\ AltMatches(IgnoreAlternatives[k], p)

\* C20: the pattern matches a path whose last segment is go.mod or go.sum,
\* and it does not match a path that ends with the bytes of go.mod or go.sum
\* after another byte than '/' and that no other alternative matches.
C20_GoModWholeSegment ==
    ignored # <<>> =>
        /\ (\E t \in {GoMod, GoSum} : WholeSegment(path, t)) => ignored[1]
        /\ (/\ \E t \in {GoMod, GoSum} : EndsWith(path, t)
            /\ ~\E t \in {GoMod, GoSum} : WholeSegment(path, t)
            /\ ~OtherMatches(path)) => ~ignored[1]

\* C20 witness: MatchString("foogo.mod") has returned false.
C20_Witness ==
    /\ path = <<"f", "o", "o">> \o GoMod
    /\ ignored = <<FALSE>>


\* ------------------------------------------------------------------------
\* Claims about Rip: errors and logic checks
\* ------------------------------------------------------------------------
\* C21: once a file job of a commit has reported an error, no result of a
\* commit that comes after it in the stream is in the results channel or has
\* been received from it, and no commit that comes after it has been
\* submitted to the pool.
C21_StopsAtFirstFailure ==
    \A n \in 1..Len(calls) :
        calls[n].failed =>
            /\ \A i \in 1..Len(Emitted) : Emitted[i].sha <= calls[n].sha
            /\ \A k \in 1..Len(submitted) : ShaOf(submitted[k]) <= calls[n].sha

\* C21 witness: of the two files of the first commit one has failed and the
\* result of the other has been delivered, a second commit with files is in
\* the stream, and Rip has returned the error.
C21_Witness ==
    /\ Len(stream) = 2
    /\ FileTotal(1) = 2 /\ FileTotal(2) > 0
    /\ \E n \in 1..Len(calls) : calls[n].failed /\ calls[n].sha = ShaOf(1)
    /\ Len(sink) = 1 /\ sink[1].sha = ShaOf(1)
    /\ mpc = "returned"
    /\ ret # <<>>
    /\ submitted = <<1>>


\* the results cached in backlog under the SHA, none when there is no key
Cached(sha) == IF sha \in DOMAIN backlog THEN backlog[sha] ELSE <<>>

\* C22: in every interleaving, a callback that has yet to run belongs to the
\* commit the goroutine is waiting for and its result carries that commit's
\* SHA; backlog has no key but that SHA and no key at all once the commit is
\* flushed; res is open and has room for the cached results and the one to
\* come; and when the process has panicked it was the forwarding send to the
\* results channel that panicked, none of the checks of the callback.
C22_LogicChecksNeverFire ==
    /\ \A j \in jobs :
           /\ gpc = "wait"
           /\ j[1] = cur
           /\ ResultOf(j[1], j[2]).sha = ShaOf(cur)
           /\ ~resClosed[j[1]]
           /\ Len(resCh[j[1]]) + Len(Cached(ShaOf(j[1]))) + 1 <= FileTotal(j[1])
           /\ Len(localerrors[j[1]]) < FileTotal(j[1])
           /\ wgDone[j[1]] = 0
    /\ DOMAIN backlog \subseteq {ShaOf(cur)}
    /\ gpc # "wait" => DOMAIN backlog = {}
    /\ crashed =>
           /\ gpc = "forward"
           /\ resCh[cur] # <<>>
           /\ ~waiting
           /\ Len(results) >= resultsCap

\* C22 witness: the first commit, of two files, has been flushed and
\* forwarded, and the first result of the second commit is in backlog while
\* its other callback has yet to run.
C22_Witness ==
    /\ submitted = <<1, 2>>
    /\ FileTotal(1) = 2 /\ FileTotal(2) = 2
    /\ AllSent(1)
    /\ DOMAIN backlog = {ShaOf(2)}
    /\ Len(backlog[ShaOf(2)]) = 1
    /\ Cardinality(jobs) = 1

\* ------------------------------------------------------------------------
\* Claims about Apply: the diff
\* ------------------------------------------------------------------------
\* C23: a call of Apply leaves the hunks of the caller's diff in the order
\* they had before the call.
C23_DiffUnchanged == apc = "done" => diff = given

====
